---------------------------- MODULE Spec2Model ----------------------------
(***************************************************************************)
(* VibeChess board controller (andrewphung1/chess-board).                  *)
(*                                                                         *)
(* The repository is a set of Arduino/ESP32 sketches.  This module models  *)
(* the BLE command dispatchers, the serial command loops and the blocking  *)
(* servo routine moveToTarget of                                           *)
(*   - v1.1/v1.1.ino                  (fault / homing variant),            *)
(*   - v1/v1.ino and the third sketch of magnetpt2_copy (single axis),     *)
(*   - the second sketch of magnetpt2_copy (dual axis, X then Y).          *)
(*                                                                         *)
(* Strings are sequences of one-character strings, so that the parser is   *)
(* computed character by character as the Arduino String code does.        *)
(* On the ESP32 loop() runs in the Arduino loop task and the BLE write     *)
(* callback in the Bluetooth task: the two contexts are two processes that *)
(* share the encoder, the motor pins, the serial receive buffer and the    *)
(* globals.                                                                *)
(***************************************************************************)
EXTENDS Integers, Sequences, FiniteSets, TLC

\* ------------------------------------------------------------------------
\* Characters and Arduino String operations
\* ------------------------------------------------------------------------

Digits == <<"0","1","2","3","4","5","6","7","8","9">>
UpperLetters == <<"A","B","C","D","E","F","G","H","I","J","K","L","M",
                  "N","O","P","Q","R","S","T","U","V","W","X","Y","Z">>
LowerLetters == <<"a","b","c","d","e","f","g","h","i","j","k","l","m",
                  "n","o","p","q","r","s","t","u","v","w","x","y","z">>

\* Position of c in the sequence s (0 when absent).
PosIn(c, s) == IF \E i \in 1..Len(s) : s[i] = c
               THEN CHOOSE i \in 1..Len(s) : s[i] = c
               ELSE 0

\* The character NUL: what String::charAt returns outside the string.
NUL == "NUL"

\* ASCII code of a character of the model's alphabet.
Ascii(c) ==
  IF c = NUL THEN 0
  ELSE IF c = " " THEN 32
  ELSE IF c = "-" THEN 45
  ELSE IF c = "=" THEN 61
  ELSE IF PosIn(c, Digits) > 0 THEN 47 + PosIn(c, Digits)
  ELSE IF PosIn(c, UpperLetters) > 0 THEN 64 + PosIn(c, UpperLetters)
  ELSE IF PosIn(c, LowerLetters) > 0 THEN 96 + PosIn(c, LowerLetters)
  ELSE 63

IsSpace(c) == c = " "
IsDigit(c) == PosIn(c, Digits) > 0

\* String::charAt(i), 0-based; NUL when i is out of range.
CharAt(s, i) == IF i >= 0 /\ i < Len(s) THEN s[i + 1] ELSE NUL

\* String::substring(left, right), 0-based, right exclusive.
Substring(s, left, right) ==
  LET l == IF left > right THEN right ELSE left
      r0 == IF left > right THEN left ELSE right
      r == IF r0 > Len(s) THEN Len(s) ELSE r0
  IN IF l >= Len(s) THEN << >> ELSE SubSeq(s, l + 1, r)

\* String::indexOf(ch, from), 0-based; -1 when absent.
IndexOf(s, ch, from) ==
  IF \E i \in from..(Len(s) - 1) : s[i + 1] = ch
  THEN CHOOSE i \in from..(Len(s) - 1) :
         s[i + 1] = ch /\ \A j \in from..(i - 1) : s[j + 1] # ch
  ELSE -1

\* String::trim(): leading and trailing white space removed.
Trim(s) ==
  IF \A i \in 1..Len(s) : IsSpace(s[i]) THEN << >>
  ELSE LET a == CHOOSE i \in 1..Len(s) :
                  ~IsSpace(s[i]) /\ \A j \in 1..(i - 1) : IsSpace(s[j])
           b == CHOOSE i \in 1..Len(s) :
                  ~IsSpace(s[i]) /\ \A j \in (i + 1)..Len(s) : IsSpace(s[j])
       IN SubSeq(s, a, b)

\* the key compared as written
KeepCase(s) == s

\* String::toLowerCase().
ToLowerCase(s) ==
  [i \in 1..Len(s) |->
     IF PosIn(s[i], UpperLetters) > 0
     THEN LowerLetters[PosIn(s[i], UpperLetters)]
     ELSE s[i]]

\* String::startsWith(prefix).
StartsWith(s, prefix) ==
  Len(s) >= Len(prefix) /\ SubSeq(s, 1, Len(prefix)) = prefix

\* String::toInt(): the leading decimal digits (an optional '-' first), 0
\* when there are none.
RECURSIVE DigitsValue(_, _, _)
DigitsValue(s, i, acc) ==
  IF i <= Len(s) /\ IsDigit(s[i])
  THEN DigitsValue(s, i + 1, 10 * acc + (PosIn(s[i], Digits) - 1))
  ELSE acc

ToInt(s) ==
  IF Len(s) > 0 /\ s[1] = "-" THEN 0 - DigitsValue(s, 2, 0)
  ELSE DigitsValue(s, 1, 0)

\* ------------------------------------------------------------------------
\* parseStandardCommand
\* ------------------------------------------------------------------------

\* A default-constructed MoveCmd: empty strings, valid = false.
EmptyCmd ==
  [id |-> << >>, type |-> << >>, fromSq |-> << >>, toSq |-> << >>,
   piece |-> << >>, notation |-> << >>, source |-> << >>,
   timestamp |-> << >>, valid |-> FALSE]

\* The MoveCmd field a (lower-cased) key is stored in.
KeyField(key) ==
  IF key = <<"i","d">> THEN "id"
  ELSE IF key = <<"t","y","p","e">> THEN "type"
  ELSE IF key = <<"f","r","o","m">> THEN "fromSq"
  ELSE IF key = <<"t","o">> THEN "toSq"
  ELSE IF key = <<"p","i","e","c","e">> THEN "piece"
  ELSE IF key = <<"n","o","t","a","t","i","o","n">> THEN "notation"
  ELSE IF key = <<"s","o","u","r","c","e">> THEN "source"
  ELSE IF key = <<"t","i","m","e","s","t","a","m","p">> THEN "timestamp"
  ELSE "none"

\* The fields each sketch's if / else-if chain assigns.
FieldsV11 == {"id", "type", "fromSq", "toSq", "piece"}
FieldsXY == {"id", "type", "toSq", "piece"}
FieldsV1 == {"id", "notation", "fromSq", "toSq", "piece", "type",
             "source", "timestamp"}

\* One token of the line: key=value stored when the key is recognised.
StoreToken(m, token, fields) ==
  LET eq == IndexOf(token, "=", 0)
      key == ToLowerCase(Trim(Substring(token, 0, eq)))
      val == Trim(Substring(token, eq + 1, Len(token)))
  IN IF Len(token) > 0 /\ eq > 0 /\ KeyField(key) \in fields
     THEN [m EXCEPT ![KeyField(key)] = val]
     ELSE m

\* The while loop over the space-separated tokens, from offset pos.
RECURSIVE ScanTokens(_, _, _, _)
ScanTokens(line, pos, m, fields) ==
  IF pos >= Len(line) THEN m
  ELSE LET space == IndexOf(line, " ", pos)
           token == Trim(IF space = -1
                         THEN Substring(line, pos, Len(line))
                         ELSE Substring(line, pos, space))
           m2 == StoreToken(m, token, fields)
       IN IF space = -1 THEN m2
          ELSE ScanTokens(line, space + 1, m2, fields)

CmdPrefix == <<"C","M","D"," ">>

\* v1.1: only id is required.  The result is the caller's MoveCmd: the
\* parsed command with valid = true, or the untouched default one.
parseStandardCommandV11(line) ==
  IF ~StartsWith(line, CmdPrefix) THEN EmptyCmd
  ELSE LET m == ScanTokens(line, 4, EmptyCmd, FieldsV11)
       IN IF m.id = << >> THEN EmptyCmd ELSE [m EXCEPT !.valid = TRUE]

\* v1.ino: id, notation, from, to and piece are all required.
parseStandardCommandV1(line) ==
  IF ~StartsWith(line, CmdPrefix) THEN EmptyCmd
  ELSE LET m == ScanTokens(line, 4, EmptyCmd, FieldsV1)
       IN IF m.id = << >> \/ m.notation = << >> \/ m.fromSq = << >>
             \/ m.toSq = << >> \/ m.piece = << >>
          THEN EmptyCmd ELSE [m EXCEPT !.valid = TRUE]

\* Third sketch of magnetpt2_copy: id and to are required.
parseStandardCommandV3(line) ==
  IF ~StartsWith(line, CmdPrefix) THEN EmptyCmd
  ELSE LET m == ScanTokens(line, 4, EmptyCmd, FieldsV1)
       IN IF m.id = << >> \/ m.toSq = << >>
          THEN EmptyCmd ELSE [m EXCEPT !.valid = TRUE]

\* Second sketch of magnetpt2_copy (dual axis): only id is required.
parseStandardCommandXY(line) ==
  IF ~StartsWith(line, CmdPrefix) THEN EmptyCmd
  ELSE LET m == ScanTokens(line, 4, EmptyCmd, FieldsXY)
       IN IF m.id = << >> THEN EmptyCmd ELSE [m EXCEPT !.valid = TRUE]

\* the piece letter left as written
KeepChar(c) == c

\* Upper case of a character ("p -= 32" for 'a'..'z').
ToUpperChar(c) ==
  IF PosIn(c, LowerLetters) > 0 THEN UpperLetters[PosIn(c, LowerLetters)]
  ELSE c

\* The lambda isSquare of the stage-timer sketch: file a-h, rank 1-8.
isSquare(sq) ==
  /\ Len(sq) = 2
  /\ Ascii(CharAt(sq, 0)) >= 97 /\ Ascii(CharAt(sq, 0)) <= 104
  /\ Ascii(CharAt(sq, 1)) >= 49 /\ Ascii(CharAt(sq, 1)) <= 56

PieceLetters == {"P", "N", "B", "R", "Q", "K"}

\* Stage-timer sketch (strict): id, notation, from, to and piece required;
\* type empty, "move" or "MOVE"; both squares checked; piece normalised.
parseStandardCommandStage(line) ==
  IF ~StartsWith(line, CmdPrefix) THEN EmptyCmd
  ELSE LET m == ScanTokens(line, 4, EmptyCmd, FieldsV1)
           p == ToUpperChar(CharAt(m.piece, 0))
       IN IF m.id = << >> \/ m.notation = << >> \/ m.fromSq = << >>
             \/ m.toSq = << >> \/ m.piece = << >>
          THEN EmptyCmd
          ELSE IF Len(m.type) > 0
                  /\ ~(m.type = <<"m","o","v","e">>
                         \/ m.type = <<"M","O","V","E">>)
          THEN EmptyCmd
          ELSE IF ~isSquare(m.fromSq) \/ ~isSquare(m.toSq) THEN EmptyCmd
          ELSE IF p \notin PieceLetters THEN EmptyCmd
          ELSE [m EXCEPT !.piece = <<p>>, !.valid = TRUE]

\* ------------------------------------------------------------------------
\* Program constants of v1.1.ino (v1.ino has the same values)
\* ------------------------------------------------------------------------

SPEED_FAST == 255
SPEED_SLOW == 150
HOMING_SPEED == 120
SLOW_ZONE == 400
TOLERANCE == 10
CRITICAL_FAULT == 50
TIMEOUT_MS == 10000
HEARTBEAT_INTERVAL_MS == 5000
\* delay(3000) of performAutoHome and delay(5) of moveToTarget
HOMING_DELAY_MS == 3000
POLL_DELAY_MS == 5

Abs(x) == IF x < 0 THEN 0 - x ELSE x

\* calculateSquareTarget: (long)((0.965 + (n - 1) * 1.5) * 720.12), in
\* thousandths of an inch and hundred-thousandths of a count.
\* the index taken as it comes
calculateSquareTargetUnclamped(squareNumber) ==
  ((965 + (squareNumber - 1) * 1500) * 72012) \div 100000

calculateSquareTarget(squareNumber) ==
  LET n == IF squareNumber < 1 THEN 1
           ELSE IF squareNumber > 8 THEN 8 ELSE squareNumber
      milliInches == 965 + (n - 1) * 1500
  IN (milliInches * 72012) \div 100000

\* a setMotor that does not look at the inversion flag
setMotorNoInvert(pwm, forward, invert) ==
  IF forward THEN <<0, pwm>> ELSE <<pwm, 0>>

\* setMotor: the duties written to <<BIN_1, BIN_2>>.
setMotor(pwm, forward, invert) ==
  LET actualDirection == IF invert THEN ~forward ELSE forward
  IN IF actualDirection THEN <<0, pwm>> ELSE <<pwm, 0>>

\* motorStop: both pins LOW.
motorStop == <<0, 0>>

\* ------------------------------------------------------------------------
\* Program constants and helpers of the dual-axis sketch (second sketch of
\* magnetpt2_copy); its TIMEOUT_MS and HEARTBEAT_INTERVAL_MS have the values
\* above
\* ------------------------------------------------------------------------

MAX_SPEED == 255
SLOW_ZONE_X == 400
MIN_SPEED_X == 150
MIN_SPEED_Y == 170
PRE_STOP_Y == 2500
TOLERANCE_XY == 15
\* the literal of "abs(target - current) > 5000" in the Y speed choice
FAR_Y == 5000

\* calculateTargetX: (long)((0.965 + (n - 1) * 1.5) * 720.12)
calculateTargetX(fileIndex) ==
  LET n == IF fileIndex < 1 THEN 1
           ELSE IF fileIndex > 8 THEN 8 ELSE fileIndex
  IN ((965 + (n - 1) * 1500) * 72012) \div 100000

\* calculateTargetY: (long)(((0.750 + 0.500) + (n - 1) * 1.5) * 4500.0)
calculateTargetY(rankIndex) ==
  LET n == IF rankIndex < 1 THEN 1
           ELSE IF rankIndex > 8 THEN 8 ELSE rankIndex
  IN ((750 + 500 + (n - 1) * 1500) * 4500) \div 1000

\* stopAll: the four PWM pins LOW.
stopAll == [X |-> motorStop, Y |-> motorStop]

\* a brake that never releases: both Y pins stay HIGH
brakeYHold(p) == [p EXCEPT !.Y = <<255, 255>>]

\* brakeY: both Y pins HIGH for 150 ms, then LOW; the X pins are not
\* written.
brakeY(p) == [p EXCEPT !.Y = motorStop]

\* setX / setY
setX(p, pwm, forward, invert) == [p EXCEPT !.X = setMotor(pwm, forward, invert.X)]
setY(p, pwm, forward, invert) == [p EXCEPT !.Y = setMotor(pwm, forward, invert.Y)]

\* ------------------------------------------------------------------------
\* Program constants of the stage-timer sketch (part_000); its
\* HEARTBEAT_INTERVAL_MS has the value above
\* ------------------------------------------------------------------------

STAGE2_TRAVEL_MS == 2500
STAGE3_MOVE_MS == 2500
COOLDOWN_MS == 5000
\* the resolution of millis()
MILLIS_STEP == 1

\* ------------------------------------------------------------------------
\* Bounds and inputs of the model
\* ------------------------------------------------------------------------

\* Serial lines that may wait in the receive buffer.
MaxSerial == 1
\* Fine (5 ms) clock steps allowed after each coarse step.
MaxFine == 1
\* The coarse clock step.
CoarseMs == HEARTBEAT_INTERVAL_MS

Sp(a, b) == a \o <<" ">> \o b

TokCmd == <<"C","M","D">>
TokId1 == <<"i","d","=","1">>
TokId2 == <<"i","d","=","2">>
TokId3 == <<"I","D","=","3">>
TokFromE2 == <<"f","r","o","m","=","e","2">>
TokFromA1 == <<"f","r","o","m","=","a","1">>
TokToE4 == <<"t","o","=","e","4">>
TokToB2 == <<"t","o","=","B","2">>
TokToJ9 == <<"t","o","=","j","9">>
TokToE9 == <<"t","o","=","e","9">>
TokPieceP == <<"p","i","e","c","e","=","p">>
TokPieceQ == <<"p","i","e","c","e","=","q">>
TokNotation == <<"n","o","t","a","t","i","o","n","=","e","4">>
TokMove == <<"t","y","p","e","=","m","o","v","e">>
TokHome == <<"t","y","p","e","=","h","o","m","e">>
TokConfirm == <<"t","y","p","e","=","c","o","n","f","i","r","m">>

\* CMD id=1 from=e2 to=e4 piece=p type=move
LineMoveE4 == Sp(Sp(Sp(Sp(Sp(TokCmd, TokId1), TokFromE2), TokToE4), TokPieceP), TokMove)
\* CMD ID=3 to=B2 type=move
LineMoveB2 == Sp(Sp(Sp(TokCmd, TokId3), TokToB2), TokMove)
\* CMD id=2 to=j9 piece=q from=a1 type=move
LineMoveJ9 == Sp(Sp(Sp(Sp(Sp(TokCmd, TokId2), TokToJ9), TokPieceQ), TokFromA1), TokMove)
\* CMD id=2 to=e9 type=move
LineMoveE9 == Sp(Sp(Sp(TokCmd, TokId2), TokToE9), TokMove)
\* CMD id=1 from=e2 to=e4 piece=p
LineNoType == Sp(Sp(Sp(Sp(TokCmd, TokId1), TokFromE2), TokToE4), TokPieceP)
\* CMD id=2 type=home
LineHome == Sp(Sp(TokCmd, TokId2), TokHome)
\* CMD id=2 type=confirm
LineConfirm == Sp(Sp(TokCmd, TokId2), TokConfirm)
\* CMD to=e4 type=move        (no id)
LineNoId == Sp(Sp(TokCmd, TokToE4), TokMove)
\* move e4                    (no CMD prefix)
LineNoPrefix == <<"m","o","v","e"," ","e","4">>

\* The lines a BLE client writes to the v1.1 sketch.
BleLinesV11 ==
  {LineMoveE4, LineMoveB2, LineMoveJ9, LineMoveE9, LineNoType,
   LineHome, LineConfirm, LineNoId, LineNoPrefix}

\* The lines typed on the serial monitor.
SerialLinesV11 == {<<"s">>, <<"z">>, <<"f">>, <<"3">>}

\* Encoder counts the hardware is sampled at: home, and around square 5
\* (5015): outside the tolerance, on its edge, beyond the critical deviation.
PositionsV11 == {0, 5004, 5005, 5066}

\* What onWrite gets from line.trim() and parseStandardCommand, per line.
ParsedV11 == [line \in BleLinesV11 |-> parseStandardCommandV11(Trim(line))]

\* CMD id=1 from=e2 to=e4 piece=p notation=e4
LineFullE4 == Sp(LineNoType, TokNotation)
\* CMD id=2 to=j9 piece=q from=a1 type=move notation=e4
LineFullJ9 == Sp(LineMoveJ9, TokNotation)

\* The lines a BLE client writes to the single-axis sketches without a
\* fault latch; LineMoveE4 and LineMoveB2 lack fields v1.ino requires.
BleLinesV1 == {LineFullE4, LineFullJ9, LineMoveE4, LineMoveB2, LineNoPrefix}
SerialLinesV1 ==
  {<<"s">>, <<"z">>, <<"i">>, <<"3">>, <<"5","0","0","5">>, <<"9","x">>}
PositionsV1 == {0, 5005, 5066}

\* CMD id=1 type=move        (no destination)
LineMoveNoTo == Sp(Sp(TokCmd, TokId1), TokMove)

\* The lines a BLE client writes to the dual-axis sketch.
BleLinesXY ==
  {LineMoveE4, LineMoveNoTo, LineNoType, LineHome, LineNoPrefix}
SerialLinesXY == {<<"s">>, <<"z">>, <<"x","2">>, <<"z","s">>, <<"u">>}
\* Counts of the two encoders: home; X on the edge of the tolerance around
\* file e (5015); Y at the cut-off point before rank 4 (25875 - 2500), and
\* 25 counts past rank 4.
PositionsXY ==
  {[X |-> 0, Y |-> 0], [X |-> 5000, Y |-> 0], [X |-> 5000, Y |-> 23375],
   [X |-> 5000, Y |-> 25900]}
ParsedXY == [line \in BleLinesXY |-> parseStandardCommandXY(Trim(line))]

\* CMD id=1 from=e2 to=e4 piece=p notation=e4 type=MOVE
LineFullUpper == Sp(LineFullE4, <<"t","y","p","e","=","M","O","V","E">>)
\* CMD id=2 to=j9 piece=q from=a1 notation=e4
LineFullJ9NoType == Sp(Sp(Sp(Sp(Sp(TokCmd, TokId2), TokToJ9), TokPieceQ),
                          TokFromA1), TokNotation)

\* The lines a BLE client writes to the stage-timer sketch.
\* CMD id=1 from=e2 to=e4 piece=p notation=e4 type=move
LineFullMove == Sp(LineFullE4, TokMove)
LineBlank == <<" ">>
BleLinesStage ==
  {LineFullE4, LineFullUpper, LineFullJ9NoType, LineMoveE4, LineNoPrefix,
   LineBlank}
ParsedStage ==
  [line \in BleLinesStage |-> parseStandardCommandStage(Trim(line))]
ParsedV1 == [line \in BleLinesV1 |-> parseStandardCommandV1(Trim(line))]
ParsedV3 == [line \in BleLinesV1 |-> parseStandardCommandV3(Trim(line))]


\* ------------------------------------------------------------------------
\* State
\* ------------------------------------------------------------------------

VARIABLES
  encoder,            \* encoder.getCount(): the position counter
  pins,               \* PWM duties of <<BIN_1, BIN_2>>
  led,                \* LED_PIN
  invertDirection,
  isSystemFaulted,
  lastFailedTarget,
  g_clientConnected,
  serialRx,           \* serial receive buffer: the pending lines
  ble,                \* the BLE task inside CmdWriteCB::onWrite
  lp,                 \* the loop task inside loop()
  cmd,                \* the MoveCmd of the last BLE write
  acks,               \* notifications sent for the last BLE write
  sinceHb,            \* millis() - lastHeartbeat, saturated
  stageState,         \* stage-timer sketch: the stage FSM
  sinceStageStart,    \* stage-timer sketch: millis() - stageStartMs, saturated
  sinceStageEntry,    \* stage-timer sketch: time since stageState was written
  parseLine,          \* parser harness: the line parseStandardCommand is given
  variant,            \* parser harness: the sketch whose parser is called
  ok,                 \* parser harness: the value the last call returned
  calls,              \* parser harness: calls made so far
  squareIndex,       \* target arithmetic: the index handed to the function
  targetCounts        \* target arithmetic: the count the last call returned

\* The globals of the stage-timer sketch, and the parser harness.
stageVars == <<stageState, sinceStageStart, sinceStageEntry>>
calcVars == <<squareIndex, targetCounts>>
harnessVars == <<parseLine, variant, ok, calls, calcVars>>

vars == <<encoder, pins, led, invertDirection, isSystemFaulted,
          lastFailedTarget, g_clientConnected, serialRx, ble, lp, cmd, acks,
          sinceHb, stageVars, harnessVars>>

STAGE_IDLE == "STAGE_IDLE"
STAGE_MOVE_TRAVEL == "STAGE_MOVE_TRAVEL"
STAGE_MOVE_PICKPLACE == "STAGE_MOVE_PICKPLACE"
STAGE_COOLDOWN == "STAGE_COOLDOWN"

\* The motion sketches have no stage FSM, and no sketch has the harness.
NoStage ==
  stageState = STAGE_IDLE /\ sinceStageStart = 0 /\ sinceStageEntry = 0
NoCalc == squareIndex = 0 /\ targetCounts = 0
NoHarness ==
  /\ parseLine = << >> /\ variant = "none" /\ ok = FALSE /\ calls = 0
  /\ NoCalc

\* A task that is not running a handler.
\* axis, forward and cutoffPoint are locals of the dual-axis moveToTarget.
IdleTask ==
  [pc |-> "idle", target |-> 0, elapsed |-> 0, outcome |-> "none",
   faultedAtEntry |-> FALSE, axis |-> "X", forward |-> FALSE,
   cutoffPoint |-> 0]

\* A task whose handler has run to its return statement.  outcome tells how
\* its servo move ended (Arrived, Deviated, TimedOut, Aborted), or none when
\* it ran no move.  The return itself takes no time: nothing else happens
\* before it.
Returning(task, outcome) ==
  [task EXCEPT !.pc = "return", !.outcome = outcome]

\* A handler entered while isSystemFaulted had the current value.
EntryTask == [IdleTask EXCEPT !.faultedAtEntry = isSystemFaulted]

Committed == ble.pc = "return" \/ lp.pc = "return"

\* a moveToTarget that servoes to the count next to the one it was given
MovingTaskOffByOne(target, faulted) ==
  [IdleTask EXCEPT !.pc = "poll", !.target = target + 1,
                   !.faultedAtEntry = faulted]

\* Entry of moveToTarget(target): startTime = millis().  faultedAtEntry
\* remembers isSystemFaulted as the handler found it.
MovingTask(target, faulted) ==
  [IdleTask EXCEPT !.pc = "poll", !.target = target,
                   !.faultedAtEntry = faulted]

\* Entry of performAutoHome: the delay(3000) starts.
HomingTask(faulted) ==
  [IdleTask EXCEPT !.pc = "homing", !.faultedAtEntry = faulted]

AckAccepted(id) == [kind |-> "accepted", id |-> id, reason |-> ""]
AckDone(id) == [kind |-> "done", id |-> id, reason |-> ""]
AckError(id, reason) == [kind |-> "error", id |-> id, reason |-> reason]
Unknown == <<"u","n","k","n","o","w","n">>

\* bleNotify: silently skipped when no client is attached.
bleNotify(log, msg) == IF g_clientConnected THEN Append(log, msg) ELSE log

InitV11 ==
  /\ encoder = 0
  /\ pins = motorStop
  /\ led = FALSE
  /\ invertDirection = TRUE
  /\ isSystemFaulted = FALSE
  /\ lastFailedTarget = 0
  /\ g_clientConnected = FALSE
  /\ serialRx = << >>
  /\ ble = IdleTask
  /\ lp = IdleTask
  /\ cmd = EmptyCmd
  /\ acks = << >>
  /\ sinceHb = 0
  /\ NoStage /\ NoHarness

\* ------------------------------------------------------------------------
\* Environment: BLE connection, serial input, time and the encoder hardware
\* ------------------------------------------------------------------------

\* ServerCB::onConnect / onDisconnect, delivered by the BLE task.
Connect ==
  /\ ~Committed
  /\ ble.pc = "idle"
  /\ ~g_clientConnected
  /\ g_clientConnected' = TRUE
  /\ UNCHANGED <<encoder, pins, led, invertDirection, isSystemFaulted,
                 lastFailedTarget, serialRx, ble, lp, cmd, acks, sinceHb>>
  /\ UNCHANGED <<stageVars, harnessVars>>

Disconnect ==
  /\ ~Committed
  /\ ble.pc = "idle"
  /\ g_clientConnected
  /\ g_clientConnected' = FALSE
  /\ UNCHANGED <<encoder, pins, led, invertDirection, isSystemFaulted,
                 lastFailedTarget, serialRx, ble, lp, cmd, acks, sinceHb>>
  /\ UNCHANGED <<stageVars, harnessVars>>

\* The operator types a line on the serial monitor.
SerialArrive(line) ==
  /\ ~Committed
  /\ Len(serialRx) < MaxSerial
  /\ serialRx' = Append(serialRx, line)
  /\ UNCHANGED <<encoder, pins, led, invertDirection, isSystemFaulted,
                 lastFailedTarget, g_clientConnected, ble, lp, cmd, acks,
                 sinceHb>>
  /\ UNCHANGED <<stageVars, harnessVars>>

Saturate(t, cap) == IF t > cap THEN cap ELSE t

\* A fine clock step is allowed MaxFine times after a coarse one.
FineOk(t) == (t % CoarseMs) < POLL_DELAY_MS * MaxFine

\* Time passing in a task that waits in delay(): millis() - startTime
\* advances (kept up to the first value that ends the wait).
Elapse(task, d) ==
  IF task.pc = "idle" THEN task
  ELSE [task EXCEPT
          !.elapsed = Saturate(@ + d, IF task.pc = "homing"
                                      THEN HOMING_DELAY_MS
                                      ELSE TIMEOUT_MS + POLL_DELAY_MS)]

\* d milliseconds pass; meanwhile the carriage moves (driven, coasting or
\* pushed by hand) and the encoder counts to p.
Tick(d, p) ==
  /\ ~Committed
  /\ d = POLL_DELAY_MS =>
       /\ FineOk(sinceHb)
       /\ ble.pc # "idle" => FineOk(ble.elapsed)
       /\ lp.pc # "idle" => FineOk(lp.elapsed)
  /\ encoder' = p
  /\ ble' = Elapse(ble, d)
  /\ lp' = Elapse(lp, d)
  /\ sinceHb' = Saturate(sinceHb + d, HEARTBEAT_INTERVAL_MS)
  /\ UNCHANGED <<pins, led, invertDirection, isSystemFaulted,
                 lastFailedTarget, g_clientConnected, serialRx, cmd, acks>>
  /\ UNCHANGED <<stageVars, harnessVars>>


\* ------------------------------------------------------------------------
\* v1.1.ino: moveToTarget
\* ------------------------------------------------------------------------

\* Serial.available() && Serial.peek() == 's'
StopPending(rx) == rx # << >> /\ CharAt(Head(rx), 0) = "s"

\* Serial.read(): the first byte of the buffer is consumed, the rest of its
\* line (at least the line end) stays.
SerialRead(rx) == <<SubSeq(Head(rx), 2, Len(Head(rx)))>> \o Tail(rx)

\* abs(error) <= TOLERANCE
Arrived(error) == Abs(error) <= TOLERANCE

\* a timeout test that never fires
TimedOutNever(elapsed) == FALSE

\* millis() - startTime > TIMEOUT_MS
TimedOut(elapsed) == elapsed > TIMEOUT_MS

\* an iteration that tests the timeout before the arrival
ServoBranchTimeoutFirst(task, count, rx) ==
  IF StopPending(rx) THEN "abort"
  ELSE IF TimedOut(task.elapsed) THEN "timeout"
  ELSE IF Arrived(task.target - count) THEN "arrive"
  ELSE "drive"

\* The branch one iteration of the while loop takes.
ServoBranch(task, count, rx) ==
  IF StopPending(rx) THEN "abort"
  ELSE IF Arrived(task.target - count) THEN "arrive"
  ELSE IF TimedOut(task.elapsed) THEN "timeout"
  ELSE "drive"

\* The duties one iteration commands: two speeds, direction by sign.
ServoDrive(error, invert) ==
  setMotor(IF Abs(error) > SLOW_ZONE THEN SPEED_FAST ELSE SPEED_SLOW,
           error > 0, invert)

\* a final validation that accepts every position
FinalValidationSkipped(target, finalPos) == TRUE

\* Final validation: the position re-read after the loop.
FinalValidation(target, finalPos) == Abs(target - finalPos) <= CRITICAL_FAULT

\* ------------------------------------------------------------------------
\* v1.1.ino: CmdWriteCB::onWrite
\* ------------------------------------------------------------------------

StrHome == <<"h","o","m","e">>
StrConfirm == <<"c","o","n","f","i","r","m">>
StrMove == <<"m","o","v","e">>
FAULT_HOMING_REQUIRED == "FAULT_HOMING_REQUIRED"

\* The branch of the dispatcher a written line takes.
\* the dispatch chain without its fault check
DispatchV11NoFaultCheck(c, faulted) ==
  IF ~c.valid THEN "bad_format"
  ELSE IF c.type = StrHome THEN "home"
  ELSE IF c.type = StrConfirm THEN "confirm"
  ELSE IF c.type = StrMove THEN "move"
  ELSE "none"

DispatchV11(c, faulted) ==
  IF ~c.valid THEN "bad_format"
  ELSE IF c.type = StrHome THEN "home"
  ELSE IF c.type = StrConfirm THEN "confirm"
  ELSE IF faulted THEN "fault"
  ELSE IF c.type = StrMove THEN "move"
  ELSE "none"

\* a file index that wraps every character into 1..8
FileIndexWrapped(toSq) == (Ascii(CharAt(toSq, 0)) % 8) + 1

\* fileIndex: 'a'..'h' or 'A'..'H' to 1..8, 0 otherwise.
FileIndex(toSq) ==
  LET f == Ascii(CharAt(toSq, 0))
  IN IF f >= 97 /\ f <= 104 THEN f - 97 + 1
     ELSE IF f >= 65 /\ f <= 72 THEN f - 65 + 1
     ELSE 0

\* Mutant: a failed move does not latch the fault.
FaultAfterMoveUnlatched(moveSuccess, faulted) == faulted

\* The fault latch after moveToTarget returned moveSuccess.
FaultAfterMove(moveSuccess, faulted) == IF moveSuccess THEN faulted ELSE TRUE

\* Mutant: done is acknowledged whatever moveToTarget returned.
MoveAckAlwaysDone(moveSuccess, id) == AckDone(id)

\* The terminal acknowledgement of a move.
MoveAck(moveSuccess, id) ==
  IF moveSuccess THEN AckDone(id) ELSE AckError(id, FAULT_HOMING_REQUIRED)

\* Mutant: confirm zeroes the encoder as home and zero do.
ConfirmCountZero(lastTarget) == 0

\* The encoder count the confirm command writes.
\* a confirm that seeds the encoder with half the target
ConfirmCountHalf(lastTarget) == lastTarget \div 2

ConfirmCount(lastTarget) == lastTarget

\* A line is written to the command characteristic.  The handler runs up to
\* its return or up to the first blocking wait (the servo loop, the homing
\* delay).
OnWriteV11(line) ==
  /\ ~Committed
  /\ ble.pc = "idle"
  /\ g_clientConnected
  /\ Len(Trim(line)) > 0
  /\ LET c == ParsedV11[line]
         d == DispatchV11(c, isSystemFaulted)
         fileIndex == FileIndex(c.toSq)
     IN /\ cmd' = c
        /\ \/ /\ d = "bad_format"
              /\ acks' = bleNotify(<< >>, AckError(Unknown, "bad_format"))
              /\ ble' = Returning(EntryTask, "none")
              /\ UNCHANGED <<encoder, pins, led, isSystemFaulted,
                             lastFailedTarget>>
           \/ /\ d = "home"
              /\ acks' = bleNotify(<< >>, AckAccepted(c.id))
              /\ led' = TRUE
              /\ pins' = setMotor(HOMING_SPEED, FALSE, invertDirection)
              /\ ble' = HomingTask(isSystemFaulted)
              /\ UNCHANGED <<encoder, isSystemFaulted, lastFailedTarget>>
           \/ /\ d = "confirm"
              /\ acks' = bleNotify(bleNotify(<< >>, AckAccepted(c.id)),
                                   AckDone(c.id))
              /\ encoder' = ConfirmCount(lastFailedTarget)
              /\ isSystemFaulted' = FALSE
              /\ ble' = Returning(EntryTask, "none")
              /\ UNCHANGED <<pins, led, lastFailedTarget>>
           \/ /\ d = "fault"
              /\ acks' = bleNotify(<< >>, AckError(c.id, FAULT_HOMING_REQUIRED))
              /\ ble' = Returning(EntryTask, "none")
              /\ UNCHANGED <<encoder, pins, led, isSystemFaulted,
                             lastFailedTarget>>
           \/ /\ d = "move"
              /\ fileIndex >= 1 /\ fileIndex <= 8
              /\ acks' = bleNotify(<< >>, AckAccepted(c.id))
              /\ led' = TRUE
              /\ lastFailedTarget' = calculateSquareTarget(fileIndex)
              /\ ble' = MovingTask(calculateSquareTarget(fileIndex), isSystemFaulted)
              /\ UNCHANGED <<encoder, pins, isSystemFaulted>>
           \/ /\ d = "move"
              /\ ~(fileIndex >= 1 /\ fileIndex <= 8)
              /\ acks' = bleNotify(bleNotify(<< >>, AckAccepted(c.id)),
                                   AckError(c.id, "invalid_file"))
              /\ ble' = Returning(EntryTask, "none")
              /\ UNCHANGED <<encoder, pins, led, isSystemFaulted,
                             lastFailedTarget>>
           \/ /\ d = "none"
              /\ acks' = << >>
              /\ ble' = Returning(EntryTask, "none")
              /\ UNCHANGED <<encoder, pins, led, isSystemFaulted,
                             lastFailedTarget>>
  /\ UNCHANGED <<invertDirection, g_clientConnected, serialRx, lp, sinceHb>>
  /\ UNCHANGED <<stageVars, harnessVars>>

\* Mutant: performAutoHome forgets to zero the encoder.
AutoHomeEndNoZero ==
  [pins |-> motorStop, encoder |-> encoder, isSystemFaulted |-> FALSE,
   led |-> FALSE]

\* What performAutoHome leaves after its delay(3000): motor stopped, encoder
\* zeroed, fault cleared, LED off.
AutoHomeEnd ==
  [pins |-> motorStop, encoder |-> 0, isSystemFaulted |-> FALSE,
   led |-> FALSE]

\* performAutoHome after its delay(3000); then the handler acknowledges.
HomeDoneV11 ==
  /\ ~Committed
  /\ ble.pc = "homing"
  /\ ble.elapsed >= HOMING_DELAY_MS
  /\ pins' = AutoHomeEnd.pins
  /\ encoder' = AutoHomeEnd.encoder
  /\ isSystemFaulted' = AutoHomeEnd.isSystemFaulted
  /\ led' = AutoHomeEnd.led
  /\ acks' = bleNotify(acks, AckDone(cmd.id))
  /\ ble' = Returning(ble, "none")
  /\ UNCHANGED <<invertDirection, lastFailedTarget, g_clientConnected,
                 serialRx, lp, cmd, sinceHb>>
  /\ UNCHANGED <<stageVars, harnessVars>>

\* moveToTarget returned to onWrite: the terminal acknowledgement.
BleMoveReturnV11(moveSuccess, outcome) ==
  /\ ble' = Returning(ble, outcome)
  /\ isSystemFaulted' = FaultAfterMove(moveSuccess, isSystemFaulted)
  /\ acks' = bleNotify(acks, MoveAck(moveSuccess, cmd.id))

\* One iteration of the servo loop run by the BLE task: the checks, then
\* setMotor and delay(5); the clock and the encoder advance in Tick.
BlePollV11 ==
  /\ ~Committed
  /\ ble.pc = "poll"
  /\ LET branch == ServoBranch(ble, encoder, serialRx)
     IN \/ /\ branch = "abort"
           /\ pins' = motorStop
           /\ serialRx' = SerialRead(serialRx)
           /\ BleMoveReturnV11(FALSE, "Aborted")
           /\ UNCHANGED <<encoder, led>>
        \/ /\ branch = "arrive"
           /\ pins' = motorStop
           /\ led' = FALSE
           /\ \E finalPos \in PositionsV11 :
                /\ encoder' = finalPos
                /\ BleMoveReturnV11(FinalValidation(ble.target, finalPos),
                                    IF FinalValidation(ble.target, finalPos)
                                    THEN "Arrived" ELSE "Deviated")
           /\ UNCHANGED serialRx
        \/ /\ branch = "timeout"
           /\ pins' = motorStop
           /\ BleMoveReturnV11(FALSE, "TimedOut")
           /\ UNCHANGED <<encoder, led, serialRx>>
        \/ /\ branch = "drive"
           /\ pins' = ServoDrive(ble.target - encoder, invertDirection)
           /\ UNCHANGED <<encoder, led, serialRx, isSystemFaulted, acks, ble>>
  /\ UNCHANGED <<invertDirection, lastFailedTarget, g_clientConnected, lp,
                 cmd, sinceHb>>
  /\ UNCHANGED <<stageVars, harnessVars>>

\* onWrite returns: its MoveCmd goes out of scope.
BleReturn ==
  /\ ble.pc = "return"
  /\ ble' = IdleTask
  /\ cmd' = EmptyCmd
  /\ acks' = << >>
  /\ UNCHANGED <<encoder, pins, led, invertDirection, isSystemFaulted,
                 lastFailedTarget, g_clientConnected, serialRx, lp, sinceHb>>
  /\ UNCHANGED <<stageVars, harnessVars>>

\* ------------------------------------------------------------------------
\* v1.1.ino: loop
\* ------------------------------------------------------------------------

\* The target of a digit line.
SerialTarget(val) ==
  IF val >= 1 /\ val <= 8 THEN calculateSquareTarget(val) ELSE val

\* One iteration of loop(): the heartbeat, then at most one serial line.
LoopV11 ==
  /\ ~Committed
  /\ lp.pc = "idle"
  /\ sinceHb' = IF sinceHb >= HEARTBEAT_INTERVAL_MS THEN 0 ELSE sinceHb
  /\ IF serialRx = << >>
     THEN UNCHANGED <<encoder, pins, led, invertDirection, isSystemFaulted,
                      lastFailedTarget, serialRx, lp>>
     ELSE LET input == Trim(Head(serialRx))
              firstChar == CharAt(input, 0)
          IN /\ serialRx' = Tail(serialRx)
             /\ IF Len(input) = 0
                THEN UNCHANGED <<encoder, pins, led, invertDirection,
                                 isSystemFaulted, lastFailedTarget, lp>>
                ELSE IF firstChar = "z"
                THEN /\ encoder' = 0
                     /\ isSystemFaulted' = FALSE
                     /\ UNCHANGED <<pins, led, invertDirection,
                                    lastFailedTarget, lp>>
                ELSE IF firstChar = "i"
                THEN /\ invertDirection' = ~invertDirection
                     /\ UNCHANGED <<encoder, pins, led, isSystemFaulted,
                                    lastFailedTarget, lp>>
                ELSE IF firstChar = "f"
                THEN /\ pins' = setMotor(SPEED_FAST, TRUE, invertDirection)
                     /\ UNCHANGED <<encoder, led, invertDirection,
                                    isSystemFaulted, lastFailedTarget, lp>>
                ELSE IF firstChar = "r"
                THEN /\ pins' = setMotor(SPEED_FAST, FALSE, invertDirection)
                     /\ UNCHANGED <<encoder, led, invertDirection,
                                    isSystemFaulted, lastFailedTarget, lp>>
                ELSE IF firstChar = "s"
                THEN /\ pins' = motorStop
                     /\ UNCHANGED <<encoder, led, invertDirection,
                                    isSystemFaulted, lastFailedTarget, lp>>
                ELSE IF IsDigit(firstChar)
                THEN /\ led' = TRUE
                     /\ lastFailedTarget' = SerialTarget(ToInt(input))
                     /\ lp' = MovingTask(SerialTarget(ToInt(input)), isSystemFaulted)
                     /\ UNCHANGED <<encoder, pins, invertDirection,
                                    isSystemFaulted>>
                ELSE UNCHANGED <<encoder, pins, led, invertDirection,
                                 isSystemFaulted, lastFailedTarget, lp>>
  /\ UNCHANGED <<g_clientConnected, ble, cmd, acks>>
  /\ UNCHANGED <<stageVars, harnessVars>>

\* One iteration of the servo loop run by the loop task; loop() ignores the
\* value moveToTarget returns.
LoopPollV11 ==
  /\ ~Committed
  /\ lp.pc = "poll"
  /\ LET branch == ServoBranch(lp, encoder, serialRx)
     IN \/ /\ branch = "abort"
           /\ pins' = motorStop
           /\ serialRx' = SerialRead(serialRx)
           /\ lp' = Returning(lp, "Aborted")
           /\ UNCHANGED <<encoder, led>>
        \/ /\ branch = "arrive"
           /\ pins' = motorStop
           /\ led' = FALSE
           /\ \E finalPos \in PositionsV11 :
                /\ encoder' = finalPos
                /\ lp' = Returning(lp, IF FinalValidation(lp.target, finalPos)
                                      THEN "Arrived" ELSE "Deviated")
           /\ UNCHANGED serialRx
        \/ /\ branch = "timeout"
           /\ pins' = motorStop
           /\ lp' = Returning(lp, "TimedOut")
           /\ UNCHANGED <<encoder, led, serialRx>>
        \/ /\ branch = "drive"
           /\ pins' = ServoDrive(lp.target - encoder, invertDirection)
           /\ UNCHANGED <<encoder, led, serialRx, lp>>
  /\ UNCHANGED <<invertDirection, isSystemFaulted, lastFailedTarget,
                 g_clientConnected, ble, cmd, acks, sinceHb>>
  /\ UNCHANGED <<stageVars, harnessVars>>

\* moveToTarget returns to loop(), which returns.
LoopReturn ==
  /\ lp.pc = "return"
  /\ lp' = IdleTask
  /\ UNCHANGED <<encoder, pins, led, invertDirection, isSystemFaulted,
                 lastFailedTarget, g_clientConnected, serialRx, ble, cmd, acks,
                 sinceHb>>
  /\ UNCHANGED <<stageVars, harnessVars>>

NextV11 ==
  \/ Connect
  \/ Disconnect
  \/ \E line \in SerialLinesV11 : SerialArrive(line)
  \/ \E d \in {POLL_DELAY_MS, CoarseMs}, p \in PositionsV11 : Tick(d, p)
  \/ \E line \in BleLinesV11 : OnWriteV11(line)
  \/ HomeDoneV11
  \/ BlePollV11
  \/ BleReturn
  \/ LoopV11
  \/ LoopPollV11
  \/ LoopReturn

SpecV11 == InitV11 /\ [][NextV11]_vars

\* Time advances, and each task, being a FreeRTOS task of its own, keeps
\* running: delay() returns, the servo loop iterates, handlers return.
FairV11 ==
  /\ SF_vars(\E p \in PositionsV11 : Tick(CoarseMs, p))
  /\ SF_vars(BlePollV11)
  /\ SF_vars(LoopPollV11)
  /\ SF_vars(HomeDoneV11)
  /\ WF_vars(BleReturn)
  /\ WF_vars(LoopReturn)

\* The inputs of the termination runs: a move and a home command over BLE,
\* a target and the stop byte on the serial line.
BleLinesTerm == {LineMoveE4, LineHome}
SerialLinesTerm == {<<"s">>, <<"3">>}

NextV11Term ==
  \/ Connect
  \/ Disconnect
  \/ \E line \in SerialLinesTerm : SerialArrive(line)
  \/ \E d \in {POLL_DELAY_MS, CoarseMs}, p \in PositionsV11 : Tick(d, p)
  \/ \E line \in BleLinesTerm : OnWriteV11(line)
  \/ HomeDoneV11
  \/ BlePollV11
  \/ BleReturn
  \/ LoopV11
  \/ LoopPollV11
  \/ LoopReturn

SpecV11Fair == InitV11 /\ [][NextV11Term]_vars /\ FairV11

\* ------------------------------------------------------------------------
\* v1.ino and the third sketch of magnetpt2_copy: single axis, void
\* moveToTarget, no fault latch (isSystemFaulted and lastFailedTarget do not
\* exist there and keep their initial values)
\* ------------------------------------------------------------------------

InitV1 ==
  /\ encoder = 0
  /\ pins = motorStop
  /\ led = FALSE
  /\ invertDirection = TRUE
  /\ isSystemFaulted = FALSE
  /\ lastFailedTarget = 0
  /\ g_clientConnected = FALSE
  /\ serialRx = << >>
  /\ ble = IdleTask
  /\ lp = IdleTask
  /\ cmd = EmptyCmd
  /\ acks = << >>
  /\ sinceHb = 0
  /\ NoStage /\ NoHarness

\* CmdWriteCB::onWrite with the MoveCmd c its parser produced: accepted
\* is acknowledged before the file is looked at.
OnWriteSingle(line, c) ==
  /\ ~Committed
  /\ ble.pc = "idle"
  /\ g_clientConnected
  /\ Len(Trim(line)) > 0
  /\ cmd' = c
  /\ \/ /\ ~c.valid
        /\ acks' = bleNotify(<< >>, AckError(Unknown, "bad_format"))
        /\ ble' = Returning(EntryTask, "none")
        /\ UNCHANGED led
     \/ /\ c.valid
        /\ FileIndex(c.toSq) >= 1 /\ FileIndex(c.toSq) <= 8
        /\ acks' = bleNotify(<< >>, AckAccepted(c.id))
        /\ led' = TRUE
        /\ ble' = MovingTask(calculateSquareTarget(FileIndex(c.toSq)),
                             isSystemFaulted)
     \/ /\ c.valid
        /\ ~(FileIndex(c.toSq) >= 1 /\ FileIndex(c.toSq) <= 8)
        /\ acks' = bleNotify(bleNotify(<< >>, AckAccepted(c.id)),
                             AckError(c.id, "invalid_file"))
        /\ ble' = Returning(EntryTask, "none")
        /\ UNCHANGED led
  /\ UNCHANGED <<encoder, pins, invertDirection, isSystemFaulted,
                 lastFailedTarget, g_clientConnected, serialRx, lp, sinceHb>>
  /\ UNCHANGED <<stageVars, harnessVars>>

OnWriteV1(line) == OnWriteSingle(line, ParsedV1[line])
OnWriteV3(line) == OnWriteSingle(line, ParsedV3[line])

\* How an iteration of the void moveToTarget that leaves the loop ended.
BreakOutcome(branch) ==
  IF branch = "abort" THEN "Aborted"
  ELSE IF branch = "arrive" THEN "Arrived"
  ELSE "TimedOut"

\* One iteration of the servo loop run by the BLE task.  Every break leads
\* to the LED going off and, back in onWrite, to printAckDone.
BlePollV1 ==
  /\ ~Committed
  /\ ble.pc = "poll"
  /\ LET branch == ServoBranch(ble, encoder, serialRx)
     IN \/ /\ branch # "drive"
           /\ pins' = motorStop
           /\ serialRx' = IF branch = "abort" THEN SerialRead(serialRx)
                          ELSE serialRx
           /\ led' = FALSE
           /\ acks' = bleNotify(acks, AckDone(cmd.id))
           /\ ble' = Returning(ble, BreakOutcome(branch))
        \/ /\ branch = "drive"
           /\ pins' = ServoDrive(ble.target - encoder, invertDirection)
           /\ UNCHANGED <<led, serialRx, acks, ble>>
  /\ UNCHANGED <<encoder, invertDirection, isSystemFaulted, lastFailedTarget,
                 g_clientConnected, lp, cmd, sinceHb>>
  /\ UNCHANGED <<stageVars, harnessVars>>

\* One iteration of loop(): the heartbeat, then at most one serial line.
LoopV1 ==
  /\ ~Committed
  /\ lp.pc = "idle"
  /\ sinceHb' = IF sinceHb >= HEARTBEAT_INTERVAL_MS THEN 0 ELSE sinceHb
  /\ IF serialRx = << >>
     THEN UNCHANGED <<encoder, pins, led, invertDirection, serialRx, lp>>
     ELSE LET input == Trim(Head(serialRx))
              firstChar == CharAt(input, 0)
          IN /\ serialRx' = Tail(serialRx)
             /\ IF Len(input) = 0
                THEN UNCHANGED <<encoder, pins, led, invertDirection, lp>>
                ELSE IF firstChar = "i"
                THEN /\ invertDirection' = ~invertDirection
                     /\ pins' = motorStop
                     /\ UNCHANGED <<encoder, led, lp>>
                ELSE IF firstChar = "f"
                THEN /\ pins' = setMotor(SPEED_FAST, TRUE, invertDirection)
                     /\ UNCHANGED <<encoder, led, invertDirection, lp>>
                ELSE IF firstChar = "r"
                THEN /\ pins' = setMotor(SPEED_FAST, FALSE, invertDirection)
                     /\ UNCHANGED <<encoder, led, invertDirection, lp>>
                ELSE IF firstChar = "s"
                THEN /\ pins' = motorStop
                     /\ UNCHANGED <<encoder, led, invertDirection, lp>>
                ELSE IF firstChar = "z"
                THEN /\ encoder' = 0
                     /\ UNCHANGED <<pins, led, invertDirection, lp>>
                ELSE IF IsDigit(firstChar) \/ firstChar = "-"
                THEN /\ led' = TRUE
                     /\ lp' = MovingTask(SerialTarget(ToInt(input)),
                                         isSystemFaulted)
                     /\ UNCHANGED <<encoder, pins, invertDirection>>
                ELSE UNCHANGED <<encoder, pins, led, invertDirection, lp>>
  /\ UNCHANGED <<isSystemFaulted, lastFailedTarget, g_clientConnected, ble,
                 cmd, acks>>
  /\ UNCHANGED <<stageVars, harnessVars>>

\* One iteration of the servo loop run by the loop task.
LoopPollV1 ==
  /\ ~Committed
  /\ lp.pc = "poll"
  /\ LET branch == ServoBranch(lp, encoder, serialRx)
     IN \/ /\ branch # "drive"
           /\ pins' = motorStop
           /\ serialRx' = IF branch = "abort" THEN SerialRead(serialRx)
                          ELSE serialRx
           /\ led' = FALSE
           /\ lp' = Returning(lp, BreakOutcome(branch))
        \/ /\ branch = "drive"
           /\ pins' = ServoDrive(lp.target - encoder, invertDirection)
           /\ UNCHANGED <<led, serialRx, lp>>
  /\ UNCHANGED <<encoder, invertDirection, isSystemFaulted, lastFailedTarget,
                 g_clientConnected, ble, cmd, acks, sinceHb>>
  /\ UNCHANGED <<stageVars, harnessVars>>

\* The environment and the steps both single-axis sketches share.
NextSingle ==
  \/ Connect
  \/ Disconnect
  \/ \E line \in SerialLinesV1 : SerialArrive(line)
  \/ \E d \in {POLL_DELAY_MS, CoarseMs}, p \in PositionsV1 : Tick(d, p)
  \/ BlePollV1
  \/ BleReturn
  \/ LoopV1
  \/ LoopPollV1
  \/ LoopReturn

NextV1 == NextSingle \/ \E line \in BleLinesV1 : OnWriteV1(line)
NextV3 == NextSingle \/ \E line \in BleLinesV1 : OnWriteV3(line)

SpecV1 == InitV1 /\ [][NextV1]_vars
SpecV3 == InitV1 /\ [][NextV3]_vars

\* ------------------------------------------------------------------------
\* Second sketch of magnetpt2_copy: dual axis, X then Y.  encoder, pins,
\* invertDirection and lastFailedTarget hold one value per axis (encX / encY,
\* the X_PWM / Y_PWM pins, invertX / invertY, lastFailedTargetX / Y).
\* ------------------------------------------------------------------------

InitXY ==
  /\ encoder = [X |-> 0, Y |-> 0]
  /\ pins = stopAll
  /\ led = FALSE
  /\ invertDirection = [X |-> TRUE, Y |-> FALSE]
  /\ isSystemFaulted = FALSE
  /\ lastFailedTarget = [X |-> 0, Y |-> 0]
  /\ g_clientConnected = FALSE
  /\ serialRx = << >>
  /\ ble = IdleTask
  /\ lp = IdleTask
  /\ cmd = EmptyCmd
  /\ acks = << >>
  /\ sinceHb = 0
  /\ NoStage /\ NoHarness

\* cutoffPoint of moveToTarget: the Y axis cuts power PRE_STOP_Y early on a
\* move longer than PRE_STOP_Y.
CutoffPoint(axis, target, startPos) ==
  IF axis = "Y" /\ Abs(target - startPos) > PRE_STOP_Y
  THEN IF target > startPos THEN target - PRE_STOP_Y ELSE target + PRE_STOP_Y
  ELSE target

\* Entry of moveToTarget(activeEnc, target, axisID), up to its while loop.
MovingTaskXY(axis, target, startPos, faulted) ==
  [MovingTask(target, faulted) EXCEPT
     !.axis = axis,
     !.forward = target > startPos,
     !.cutoffPoint = CutoffPoint(axis, target, startPos)]

\* lastFailedTargetX / lastFailedTargetY as moveToTarget records them.
RecordTarget(last, axis, target) == [last EXCEPT ![axis] = target]

\* stopNow of one iteration.
StopNow(task, current) ==
  LET dist == Abs(task.target - current)
  IN IF task.axis = "X" THEN dist <= TOLERANCE_XY
     ELSE \/ dist <= TOLERANCE_XY
          \/ task.forward /\ current >= task.cutoffPoint
          \/ ~task.forward /\ current <= task.cutoffPoint

\* The branch one iteration of the while loop takes.
ServoBranchXY(task, count, rx) ==
  IF StopPending(rx) THEN "abort"
  ELSE IF StopNow(task, count[task.axis]) THEN "stop"
  ELSE IF TimedOut(task.elapsed) THEN "timeout"
  ELSE "drive"

\* The duties one iteration commands on its axis.
ServoDriveXY(p, task, current, invert) ==
  LET error == task.target - current
  IN IF task.axis = "X"
     THEN setX(p, IF Abs(error) > SLOW_ZONE_X THEN MAX_SPEED ELSE MIN_SPEED_X,
               error > 0, invert)
     ELSE setY(p, IF Abs(error) > FAR_Y THEN MAX_SPEED ELSE MIN_SPEED_Y,
               error > 0, invert)

\* fileIdx and rankIdx of onWrite: plain character arithmetic.
FileIdxXY(toSq) ==
  LET file == Ascii(CharAt(toSq, 0))
  IN IF file >= 97 THEN file - 97 + 1 ELSE file - 65 + 1
RankIdxXY(toSq) == Ascii(CharAt(toSq, 1)) - 48

\* CmdWriteCB::onWrite, up to its return or to the first servo loop.
OnWriteXY(line) ==
  /\ ~Committed
  /\ ble.pc = "idle"
  /\ g_clientConnected
  /\ Len(Trim(line)) > 0
  /\ LET c == ParsedXY[line]
     IN /\ cmd' = c
        /\ \/ /\ ~c.valid
              /\ acks' = bleNotify(<< >>, AckError(Unknown, "bad_format"))
              /\ ble' = Returning(EntryTask, "none")
              /\ UNCHANGED <<encoder, led, lastFailedTarget>>
           \/ /\ c.valid /\ c.type = StrHome
              /\ acks' = bleNotify(bleNotify(<< >>, AckAccepted(c.id)),
                                   AckDone(c.id))
              /\ encoder' = [X |-> 0, Y |-> 0]
              /\ ble' = Returning(EntryTask, "none")
              /\ UNCHANGED <<led, lastFailedTarget>>
           \/ /\ c.valid /\ c.type # StrHome /\ c.type = StrMove
              /\ acks' = bleNotify(<< >>, AckAccepted(c.id))
              /\ led' = TRUE
              /\ lastFailedTarget' =
                   RecordTarget(lastFailedTarget, "X",
                                calculateTargetX(FileIdxXY(c.toSq)))
              /\ ble' = MovingTaskXY("X", calculateTargetX(FileIdxXY(c.toSq)),
                                     encoder.X, isSystemFaulted)
              /\ UNCHANGED encoder
           \/ /\ c.valid /\ c.type # StrHome /\ c.type # StrMove
              /\ acks' = << >>
              /\ ble' = Returning(EntryTask, "none")
              /\ UNCHANGED <<encoder, led, lastFailedTarget>>
  /\ UNCHANGED <<pins, invertDirection, isSystemFaulted, g_clientConnected,
                 serialRx, lp, sinceHb>>
  /\ UNCHANGED <<stageVars, harnessVars>>

\* a failed axis step acknowledged like a completed move
BleMoveFailAsDoneXY(outcome) ==
  /\ pins' = stopAll
  /\ isSystemFaulted' = isSystemFaulted
  /\ acks' = bleNotify(acks, AckDone(cmd.id))
  /\ ble' = Returning(ble, outcome)

\* A moveToTarget of onWrite returned false: the latch and the error.
BleMoveFailXY(outcome) ==
  /\ pins' = stopAll
  /\ isSystemFaulted' = TRUE
  /\ acks' = bleNotify(acks, AckError(cmd.id, FAULT_HOMING_REQUIRED))
  /\ ble' = Returning(ble, outcome)

\* One iteration of the servo loop run by the BLE task.  On stopNow the
\* axis is stopped and settles for 500 ms (the carriage may still move);
\* after X, onWrite enters the Y move; after Y, it acknowledges done.
BlePollXY ==
  /\ ~Committed
  /\ ble.pc = "poll"
  /\ LET branch == ServoBranchXY(ble, encoder, serialRx)
     IN \/ /\ branch = "abort"
           /\ serialRx' = SerialRead(serialRx)
           /\ BleMoveFailXY("Aborted")
           /\ UNCHANGED <<encoder, lastFailedTarget>>
        \/ /\ branch = "stop" /\ ble.axis = "X"
           /\ pins' = stopAll
           /\ \E settled \in PositionsXY :
                /\ encoder' = settled
                /\ ble' = MovingTaskXY("Y",
                                       calculateTargetY(RankIdxXY(cmd.toSq)),
                                       settled.Y, ble.faultedAtEntry)
           /\ lastFailedTarget' =
                RecordTarget(lastFailedTarget, "Y",
                             calculateTargetY(RankIdxXY(cmd.toSq)))
           /\ UNCHANGED <<serialRx, isSystemFaulted, acks>>
        \/ /\ branch = "stop" /\ ble.axis = "Y"
           /\ pins' = brakeY(pins)
           /\ \E settled \in PositionsXY : encoder' = settled
           /\ acks' = bleNotify(acks, AckDone(cmd.id))
           /\ ble' = Returning(ble, "Arrived")
           /\ UNCHANGED <<serialRx, isSystemFaulted, lastFailedTarget>>
        \/ /\ branch = "timeout"
           /\ BleMoveFailXY("TimedOut")
           /\ UNCHANGED <<encoder, serialRx, lastFailedTarget>>
        \/ /\ branch = "drive"
           /\ pins' = ServoDriveXY(pins, ble, encoder[ble.axis],
                                   invertDirection)
           /\ UNCHANGED <<encoder, serialRx, isSystemFaulted, acks, ble,
                          lastFailedTarget>>
  /\ UNCHANGED <<led, invertDirection, g_clientConnected, lp, cmd, sinceHb>>
  /\ UNCHANGED <<stageVars, harnessVars>>

\* The axis and the target of an x... / y... serial line.
SerialAxis(first) == IF first = "y" \/ first = "Y" THEN "Y" ELSE "X"
SerialTargetXY(input) ==
  LET rest == Substring(input, 1, Len(input))
  IN IF Len(input) = 2 /\ IsDigit(CharAt(input, 1))
     THEN IF SerialAxis(CharAt(input, 0)) = "Y"
          THEN calculateTargetY(ToInt(rest))
          ELSE calculateTargetX(ToInt(rest))
     ELSE ToInt(rest)

\* One iteration of loop(): the heartbeat, then at most one serial line.
LoopXY ==
  /\ ~Committed
  /\ lp.pc = "idle"
  /\ sinceHb' = IF sinceHb >= HEARTBEAT_INTERVAL_MS THEN 0 ELSE sinceHb
  /\ IF serialRx = << >>
     THEN UNCHANGED <<encoder, pins, led, lastFailedTarget, serialRx, lp>>
     ELSE LET input == Trim(Head(serialRx))
              first == CharAt(input, 0)
          IN /\ serialRx' = Tail(serialRx)
             /\ IF Len(input) = 0
                THEN UNCHANGED <<encoder, pins, led, lastFailedTarget, lp>>
                ELSE IF first \in {"x", "X", "y", "Y"}
                THEN /\ led' = TRUE
                     /\ lastFailedTarget' =
                          RecordTarget(lastFailedTarget, SerialAxis(first),
                                       SerialTargetXY(input))
                     /\ lp' = MovingTaskXY(SerialAxis(first),
                                           SerialTargetXY(input),
                                           encoder[SerialAxis(first)],
                                           isSystemFaulted)
                     /\ UNCHANGED <<encoder, pins>>
                ELSE IF input = <<"f">>
                THEN /\ pins' = setX(pins, MAX_SPEED, TRUE, invertDirection)
                     /\ UNCHANGED <<encoder, led, lastFailedTarget, lp>>
                ELSE IF input = <<"b">>
                THEN /\ pins' = setX(pins, MAX_SPEED, FALSE, invertDirection)
                     /\ UNCHANGED <<encoder, led, lastFailedTarget, lp>>
                ELSE IF input = <<"u">>
                THEN /\ pins' = setY(pins, MAX_SPEED, TRUE, invertDirection)
                     /\ UNCHANGED <<encoder, led, lastFailedTarget, lp>>
                ELSE IF input = <<"d">>
                THEN /\ pins' = setY(pins, MAX_SPEED, FALSE, invertDirection)
                     /\ UNCHANGED <<encoder, led, lastFailedTarget, lp>>
                ELSE IF input = <<"s">>
                THEN /\ pins' = stopAll
                     /\ UNCHANGED <<encoder, led, lastFailedTarget, lp>>
                ELSE IF input = <<"z">>
                THEN /\ encoder' = [X |-> 0, Y |-> 0]
                     /\ UNCHANGED <<pins, led, lastFailedTarget, lp>>
                ELSE UNCHANGED <<encoder, pins, led, lastFailedTarget, lp>>
  /\ UNCHANGED <<invertDirection, isSystemFaulted, g_clientConnected, ble,
                 cmd, acks>>
  /\ UNCHANGED <<stageVars, harnessVars>>

\* One iteration of the servo loop run by the loop task; loop() ignores the
\* value moveToTarget returns.
LoopPollXY ==
  /\ ~Committed
  /\ lp.pc = "poll"
  /\ LET branch == ServoBranchXY(lp, encoder, serialRx)
     IN \/ /\ branch = "abort"
           /\ pins' = stopAll
           /\ serialRx' = SerialRead(serialRx)
           /\ lp' = Returning(lp, "Aborted")
           /\ UNCHANGED encoder
        \/ /\ branch = "stop"
           /\ pins' = IF lp.axis = "Y" THEN brakeY(pins) ELSE stopAll
           /\ \E settled \in PositionsXY : encoder' = settled
           /\ lp' = Returning(lp, "Arrived")
           /\ UNCHANGED serialRx
        \/ /\ branch = "timeout"
           /\ pins' = stopAll
           /\ lp' = Returning(lp, "TimedOut")
           /\ UNCHANGED <<encoder, serialRx>>
        \/ /\ branch = "drive"
           /\ pins' = ServoDriveXY(pins, lp, encoder[lp.axis],
                                   invertDirection)
           /\ UNCHANGED <<encoder, serialRx, lp>>
  /\ UNCHANGED <<led, invertDirection, isSystemFaulted, lastFailedTarget,
                 g_clientConnected, ble, cmd, acks, sinceHb>>
  /\ UNCHANGED <<stageVars, harnessVars>>

NextXY ==
  \/ Connect
  \/ Disconnect
  \/ \E line \in SerialLinesXY : SerialArrive(line)
  \/ \E p \in PositionsXY : Tick(CoarseMs, p)
  \/ \E line \in BleLinesXY : OnWriteXY(line)
  \/ BlePollXY
  \/ BleReturn
  \/ LoopXY
  \/ LoopPollXY
  \/ LoopReturn

SpecXY == InitXY /\ [][NextXY]_vars


\* ------------------------------------------------------------------------
\* Stage-timer sketch (part_000): onWrite starts a timed stage sequence that
\* loop() advances.  onWrite runs in the Bluetooth task and loop() in the
\* loop task, so the two writes of enterStage and the reads of loop()
\* interleave.  sinceStageStart is millis() - stageStartMs; lp.elapsed is
\* millis() - now while loop() runs; sinceStageEntry is the time for which
\* stageState has had its value.
\* ------------------------------------------------------------------------

motionVars == <<encoder, pins, led, invertDirection, isSystemFaulted,
                lastFailedTarget, serialRx>>

InitStage ==
  /\ encoder = 0
  /\ pins = motorStop
  /\ led = FALSE
  /\ invertDirection = TRUE
  /\ isSystemFaulted = FALSE
  /\ lastFailedTarget = 0
  /\ g_clientConnected = FALSE
  /\ serialRx = << >>
  /\ ble = IdleTask
  /\ lp = IdleTask
  /\ cmd = EmptyCmd
  /\ acks = << >>
  /\ sinceHb = 0
  /\ NoStage
  /\ NoHarness

\* now - stageStartMs >= threshold in unsigned long arithmetic: a negative
\* difference d wraps to d + 2^32 (compared in halves of 2^31, inside the
\* integer range of the model checker).
ElapsedGE(age, stale, threshold) ==
  LET d == age - stale
  IN IF d >= 0 THEN d >= threshold
     ELSE (d + 2^30) + 2^30 >= (threshold - 2^30) - 2^30

StageThreshold(s) ==
  IF s = STAGE_MOVE_TRAVEL THEN STAGE2_TRAVEL_MS
  ELSE IF s = STAGE_MOVE_PICKPLACE THEN STAGE3_MOVE_MS
  ELSE COOLDOWN_MS

\* the successor of each stage, with the cooldown leading back to travel
NextStageNoIdle(s) ==
  IF s = STAGE_MOVE_TRAVEL THEN STAGE_MOVE_PICKPLACE
  ELSE IF s = STAGE_MOVE_PICKPLACE THEN STAGE_COOLDOWN
  ELSE STAGE_MOVE_TRAVEL

NextStageOf(s) ==
  IF s = STAGE_MOVE_TRAVEL THEN STAGE_MOVE_PICKPLACE
  ELSE IF s = STAGE_MOVE_PICKPLACE THEN STAGE_COOLDOWN
  ELSE STAGE_IDLE

\* the busy test of onWrite
StageBusyNever(s) == FALSE

StageBusy(s) == s # STAGE_IDLE

\* the reply of onWrite to a line that does not parse
RejectSilently(log) == log

RejectBadFormat(log) == bleNotify(log, AckError(Unknown, "bad_format"))

\* onWrite up to the first write of enterStage(STAGE_MOVE_TRAVEL).
OnWriteStage(line) ==
  /\ ~Committed
  /\ ble.pc = "idle"
  /\ g_clientConnected
  /\ parseLine' = line
  /\ LET c == ParsedStage[line] IN
       IF Trim(line) = << >> THEN
         /\ ble' = Returning(IdleTask, "none")
         /\ UNCHANGED <<cmd, acks, stageVars>>
       ELSE IF ~c.valid THEN
         /\ acks' = RejectBadFormat(acks)
         /\ ble' = Returning(IdleTask, "none")
         /\ UNCHANGED <<cmd, stageVars>>
       ELSE IF StageBusy(stageState) THEN
         /\ cmd' = c
         /\ acks' = bleNotify(acks, AckError(c.id, "busy"))
         /\ ble' = Returning(IdleTask, "none")
         /\ UNCHANGED stageVars
       ELSE
         /\ cmd' = c
         /\ acks' = bleNotify(bleNotify(acks, AckAccepted(c.id)),
                              AckDone(c.id))
         /\ stageState' = STAGE_MOVE_TRAVEL
         /\ sinceStageEntry' = 0
         /\ ble' = [IdleTask EXCEPT !.pc = "stamp"]
         /\ UNCHANGED sinceStageStart
  /\ UNCHANGED <<motionVars, g_clientConnected, lp, sinceHb,
                 variant, ok, calls, calcVars>>

\* The second write of enterStage in onWrite: stageStartMs = millis().
BleStamp ==
  /\ ble.pc = "stamp"
  /\ sinceStageStart' = 0
  /\ ble' = Returning(ble, "none")
  /\ UNCHANGED <<motionVars, g_clientConnected, lp, cmd, acks, sinceHb,
                 stageState, sinceStageEntry, harnessVars>>

\* loop(): now = millis() and the heartbeat.
LoopStageRead ==
  /\ lp.pc = "idle"
  /\ lp' = [IdleTask EXCEPT !.pc = "switch"]
  /\ sinceHb' = IF sinceHb >= HEARTBEAT_INTERVAL_MS THEN 0 ELSE sinceHb
  /\ UNCHANGED <<motionVars, g_clientConnected, ble, cmd, acks, stageVars,
                 harnessVars>>

\* loop(): the switch on stageState, up to the first write of enterStage.
LoopStageSwitch ==
  /\ lp.pc = "switch"
  /\ IF /\ stageState # STAGE_IDLE
        /\ ElapsedGE(sinceStageStart, lp.elapsed,
                     StageThreshold(stageState))
     THEN /\ stageState' = NextStageOf(stageState)
          /\ sinceStageEntry' = 0
          /\ lp' = [lp EXCEPT !.pc = "stamp"]
     ELSE /\ lp' = IdleTask
          /\ UNCHANGED <<stageState, sinceStageEntry>>
  /\ UNCHANGED <<motionVars, g_clientConnected, ble, cmd, acks, sinceHb,
                 sinceStageStart, harnessVars>>

\* The second write of enterStage in loop().
LoopStageStamp ==
  /\ lp.pc = "stamp"
  /\ sinceStageStart' = 0
  /\ lp' = IdleTask
  /\ UNCHANGED <<motionVars, g_clientConnected, ble, cmd, acks, sinceHb,
                 stageState, sinceStageEntry, harnessVars>>

StageCap == COOLDOWN_MS + MILLIS_STEP * MaxFine

\* A fine clock step is allowed MaxFine times after a coarse one.
StageFineOk(t, cap) ==
  t = cap \/ (t % STAGE2_TRAVEL_MS) < MILLIS_STEP * MaxFine

\* d milliseconds pass: a stage length between two iterations of loop(), or
\* one clock step while a handler runs.
StageTick(d) ==
  /\ d = MILLIS_STEP =>
       /\ lp.pc # "idle" \/ ble.pc # "idle"
       /\ StageFineOk(sinceStageStart, StageCap)
       /\ StageFineOk(sinceStageEntry, StageCap)
       /\ StageFineOk(sinceHb, HEARTBEAT_INTERVAL_MS)
       /\ lp.elapsed < MILLIS_STEP * MaxFine
  /\ d # MILLIS_STEP => lp.pc = "idle"
  /\ sinceStageStart' = Saturate(sinceStageStart + d, StageCap)
  /\ sinceStageEntry' = Saturate(sinceStageEntry + d, StageCap)
  /\ sinceHb' = Saturate(sinceHb + d, HEARTBEAT_INTERVAL_MS)
  /\ lp' = IF lp.pc = "idle" THEN lp ELSE [lp EXCEPT !.elapsed = @ + d]
  /\ UNCHANGED <<motionVars, g_clientConnected, ble, cmd, acks, stageState,
                 harnessVars>>

NextStage ==
  \/ Connect
  \/ Disconnect
  \/ \E line \in BleLinesStage : OnWriteStage(line)
  \/ BleStamp
  \/ BleReturn
  \/ LoopStageRead
  \/ LoopStageSwitch
  \/ LoopStageStamp
  \/ StageTick(MILLIS_STEP)
  \/ StageTick(STAGE2_TRAVEL_MS)

SpecStage == InitStage /\ [][NextStage]_vars

\* loop() is called again and again, a handler that has started runs on,
\* and time advances.
FairStage ==
  /\ WF_vars(BleStamp)
  /\ WF_vars(BleReturn)
  /\ WF_vars(LoopStageRead)
  /\ WF_vars(LoopStageSwitch)
  /\ WF_vars(LoopStageStamp)
  /\ SF_vars(StageTick(STAGE2_TRAVEL_MS))

SpecStageFair == SpecStage /\ FairStage


\* ------------------------------------------------------------------------
\* parseStandardCommand on its own: the five parsers of the repository
\* applied to a line, MaxCalls times over, with cmd as the caller's MoveCmd.
\* ------------------------------------------------------------------------

MaxCalls == 2

Variants == {"v1", "v1.1", "xy", "v3", "stage"}

parseStandardCommand(v, line) ==
  IF v = "v1" THEN parseStandardCommandV1(line)
  ELSE IF v = "v1.1" THEN parseStandardCommandV11(line)
  ELSE IF v = "xy" THEN parseStandardCommandXY(line)
  ELSE IF v = "v3" THEN parseStandardCommandV3(line)
  ELSE parseStandardCommandStage(line)

\* tokens that carry no recognised key
JunkTokens == {<<"f","o","o","=","b","a","r">>, <<"j","u","n","k">>,
               <<"=","x">>}

HarnessBase ==
  LET TypeMixed == <<"t","y","p","e","=","M","o","v","e">>
      TypeEmpty == <<"t","y","p","e","=">>
      TypeHomeMixed == <<"t","y","p","e","=","H","o","m","e">>
      TypeConfirmUpper == <<"t","y","p","e","=","C","O","N","F","I","R","M">>
      FromI2 == <<"f","r","o","m","=","i","2">>
      PieceX == <<"p","i","e","c","e","=","x">>
  IN { LineMoveE4, LineNoType, LineFullE4, LineFullUpper,
       LineFullMove, Sp(LineFullE4, TypeMixed),
       Sp(LineFullE4, TokHome), Sp(LineFullE4, TypeEmpty),
       Sp(Sp(Sp(Sp(TokCmd, TokId2), TokToJ9), TokPieceQ), TokFromA1),
       LineFullJ9NoType, LineMoveJ9,
       Sp(Sp(Sp(Sp(Sp(TokCmd, TokId1), FromI2), TokToE4), TokPieceP),
          TokNotation),
       Sp(Sp(Sp(Sp(Sp(TokCmd, TokId1), TokFromE2), TokToE4), PieceX),
          TokNotation),
       LineHome, LineConfirm, LineMoveB2,
       Sp(Sp(TokCmd, TokId2), TypeHomeMixed),
       Sp(Sp(TokCmd, TokId2), TypeConfirmUpper),
       Sp(Sp(Sp(TokCmd, TokId1), TokToE4), TypeMixed),
       LineNoId, LineNoPrefix,
       <<"c","m","d">> \o <<" ">> \o TokId1,
       TokCmd, Sp(TokCmd, << >>), Sp(TokCmd, <<"=">>),
       Sp(TokCmd, <<"i","d">>), Sp(Sp(TokCmd, << >>), TokId1),
       << >> }

HarnessLines ==
  HarnessBase \cup {Sp(l, <<"j","u","n","k">>) : l \in HarnessBase}

\* a MoveCmd the caller may hold from an earlier write
PriorCmd == parseStandardCommandV1(LineFullJ9)

InitParse ==
  /\ encoder = 0
  /\ pins = motorStop
  /\ led = FALSE
  /\ invertDirection = TRUE
  /\ isSystemFaulted = FALSE
  /\ lastFailedTarget = 0
  /\ g_clientConnected = FALSE
  /\ serialRx = << >>
  /\ ble = IdleTask
  /\ lp = IdleTask
  /\ acks = << >>
  /\ sinceHb = 0
  /\ NoStage
  /\ cmd \in {EmptyCmd, PriorCmd}
  /\ parseLine \in HarnessLines
  /\ variant \in Variants
  /\ ok = FALSE
  /\ calls = 0
  /\ NoCalc

\* "out = m" happens on success alone
AssignAlways(m, out) == m

AssignOut(m, out) == IF m.valid THEN m ELSE out

\* bool ok = parseStandardCommand(line, cmd);
ParseCall ==
  /\ calls < MaxCalls
  /\ LET m == parseStandardCommand(variant, parseLine)
     IN /\ ok' = m.valid
        /\ cmd' = AssignOut(m, cmd)
  /\ calls' = calls + 1
  /\ UNCHANGED <<motionVars, g_clientConnected, ble, lp, acks, sinceHb,
                 stageVars, parseLine, variant, calcVars>>

NextParse == ParseCall

SpecParse == InitParse /\ [][NextParse]_vars


\* ------------------------------------------------------------------------
\* The target arithmetic on its own: calculateSquareTarget (v1, v1.1, third
\* sketch), calculateTargetX / calculateTargetY (dual-axis sketch) and the
\* calculateSquareTarget of calibration.ino, called for one index after
\* the other.
\* ------------------------------------------------------------------------

\* calibration.ino: the index is clamped from below only.
calculateSquareTargetCalibration(squareNumber) ==
  LET n == IF squareNumber < 1 THEN 1 ELSE squareNumber
  IN ((965 + (n - 1) * 1500) * 72012) \div 100000

\* indices tried below 1 and above 8
IndexMargin == 2

CalcVariants == {"square", "X", "Y", "calibration"}

CalcTarget(v, n) ==
  IF v = "square" THEN calculateSquareTarget(n)
  ELSE IF v = "X" THEN calculateTargetX(n)
  ELSE IF v = "Y" THEN calculateTargetY(n)
  ELSE calculateSquareTargetCalibration(n)

InitCalc ==
  /\ encoder = 0
  /\ pins = motorStop
  /\ led = FALSE
  /\ invertDirection = TRUE
  /\ isSystemFaulted = FALSE
  /\ lastFailedTarget = 0
  /\ g_clientConnected = FALSE
  /\ serialRx = << >>
  /\ ble = IdleTask
  /\ lp = IdleTask
  /\ cmd = EmptyCmd
  /\ acks = << >>
  /\ sinceHb = 0
  /\ NoStage
  /\ parseLine = << >>
  /\ variant \in CalcVariants
  /\ ok = FALSE
  /\ calls = 0
  /\ squareIndex \in (1 - IndexMargin)..(8 + IndexMargin)
  /\ targetCounts = 0

\* long target = calculate...(squareIndex); calls counts the calls
CalcCall ==
  /\ ~ok
  /\ targetCounts' = CalcTarget(variant, squareIndex)
  /\ ok' = TRUE
  /\ calls' = IF calls < MaxCalls THEN calls + 1 ELSE calls
  /\ UNCHANGED <<motionVars, g_clientConnected, ble, lp, cmd, acks, sinceHb,
                 stageVars, parseLine, variant, squareIndex>>

\* the caller goes on to the next index
NextIndex ==
  /\ ok
  /\ squareIndex < 8 + IndexMargin
  /\ squareIndex' = squareIndex + 1
  /\ ok' = FALSE
  /\ UNCHANGED <<motionVars, g_clientConnected, ble, lp, cmd, acks, sinceHb,
                 stageVars, parseLine, variant, calls, targetCounts>>

NextCalc == CalcCall \/ NextIndex

SpecCalc == InitCalc /\ [][NextCalc]_vars


\* ------------------------------------------------------------------------
\* Properties of v1.1.ino (fault / homing variant), under SpecV11
\* ------------------------------------------------------------------------

Handling == ble.pc # "idle"
Returned == ble.pc = "return"
FaultAck == AckError(cmd.id, FAULT_HOMING_REQUIRED)
ValidFile(toSq) == FileIndex(toSq) >= 1 /\ FileIndex(toSq) <= 8

\* file a-h (either letter case) and rank 1-8, exactly two characters
IsSquare(sq) ==
  /\ Len(sq) = 2
  /\ ValidFile(sq)
  /\ Ascii(CharAt(sq, 1)) >= 49 /\ Ascii(CharAt(sq, 1)) <= 56

\* C1 (as claimed): while isSystemFaulted is true no command starts a servo
\* move: neither task enters moveToTarget from a handler that found the
\* system faulted, and a BLE command other than home / confirm handled while
\* faulted is answered with ack:error {id} FAULT_HOMING_REQUIRED only.
C1_NoMoveWhileFaulted ==
  /\ ble.pc = "poll" => ~ble.faultedAtEntry
  /\ lp.pc = "poll" => ~lp.faultedAtEntry
  /\ (Returned /\ ble.faultedAtEntry /\ cmd.valid
        /\ cmd.type # StrHome /\ cmd.type # StrConfirm)
       => acks = <<FaultAck>> /\ ble.outcome = "none"

\* C2: a servo poll of the BLE task that finds neither a stop byte nor the
\* position within TOLERANCE ends the move only as TimedOut, and only once
\* more than TIMEOUT_MS have elapsed; a BLE move that ended as TimedOut
\* returns with isSystemFaulted = true and the acknowledgements accepted,
\* error FAULT_HOMING_REQUIRED; and a move command dispatched while the
\* system is faulted returns ack:error {id} FAULT_HOMING_REQUIRED without
\* running moveToTarget.
C2_TimeoutLatchesFault ==
  /\ [][(ble.pc = "poll" /\ ble'.pc = "return" /\ ~StopPending(serialRx)
           /\ ~Arrived(ble.target - encoder))
          => ble'.outcome = "TimedOut" /\ TimedOut(ble.elapsed)]_vars
  /\ []((Returned /\ ble.outcome = "TimedOut")
          => /\ isSystemFaulted
             /\ acks = <<AckAccepted(cmd.id), FaultAck>>)
  /\ []((Handling /\ ble.faultedAtEntry /\ cmd.valid /\ cmd.type = StrMove)
          => /\ Returned
             /\ ble.outcome = "none"
             /\ acks = <<FaultAck>>)

C2_Witness ==
  /\ Returned /\ ble.outcome = "TimedOut" /\ isSystemFaulted
  /\ ble.elapsed > TIMEOUT_MS
  /\ ~Arrived(ble.target - encoder)

\* C3 (as claimed): a move ended by the operator's stop byte leaves the motor
\* stopped and isSystemFaulted as the handler found it.
C3_AbortLeavesLatch ==
  (Returned /\ ble.outcome = "Aborted")
    => /\ pins = motorStop
       /\ isSystemFaulted = ble.faultedAtEntry

\* C4: when the BLE home command returns, the acknowledgements are accepted
\* then done, the motor is stopped, isSystemFaulted is false and the encoder
\* reads 0; the latch is set again only by a BLE move that fails, so a later
\* move command with a valid file is accepted, and it starts the servo with
\* the target of its file and the encoder as home left it.
C4_HomeRecovers ==
  /\ [](Returned /\ cmd.type = StrHome
          => /\ acks = <<AckAccepted(cmd.id), AckDone(cmd.id)>>
             /\ pins = motorStop
             /\ ~isSystemFaulted
             /\ encoder = 0)
  /\ [][~isSystemFaulted /\ isSystemFaulted'
          => ble.pc = "poll" /\ ble'.pc = "return"]_vars
  /\ [][(ble.pc = "idle" /\ Handling' /\ ~isSystemFaulted
           /\ cmd'.type = StrMove /\ ValidFile(cmd'.toSq))
          => /\ ble'.pc = "poll"
             /\ acks' = <<AckAccepted(cmd'.id)>>
             /\ ble'.target = calculateSquareTarget(FileIndex(cmd'.toSq))
             /\ encoder' = encoder]_vars

C4_Witness ==
  /\ Returned /\ cmd.type = StrHome /\ ble.faultedAtEntry
  /\ ~isSystemFaulted /\ encoder = 0 /\ lastFailedTarget # 0

\* C5: when the BLE confirm command returns, the encoder holds exactly
\* lastFailedTarget, isSystemFaulted is false and the acknowledgements are
\* accepted then done; neither the return nor the start of the next move
\* rewrites the encoder, and a servo poll of the BLE task ends the move as
\* arrived exactly when |target - encoder| <= TOLERANCE.
C5_ConfirmSeedsEncoder ==
  /\ [](Returned /\ cmd.type = StrConfirm
          => /\ encoder = lastFailedTarget
             /\ ~isSystemFaulted
             /\ acks = <<AckAccepted(cmd.id), AckDone(cmd.id)>>)
  /\ [][(Returned \/ (ble.pc = "idle" /\ ble'.pc = "poll"))
          => encoder' = encoder]_vars
  /\ [][(ble.pc = "poll" /\ ble'.pc = "return" /\ ~StopPending(serialRx))
          => (ble'.outcome \in {"Arrived", "Deviated"}
                <=> Abs(ble.target - encoder) <= TOLERANCE)]_vars

C5_Witness ==
  /\ Returned /\ cmd.type = StrConfirm /\ ble.faultedAtEntry
  /\ lastFailedTarget # 0 /\ encoder = lastFailedTarget
  /\ ~isSystemFaulted

\* C6: a BLE move with a valid file handled while not faulted runs the
\* servo; while the servo polls, exactly ack:accepted {id} has been sent;
\* when it has returned, exactly one terminal acknowledgement follows: done
\* if moveToTarget succeeded, otherwise error FAULT_HOMING_REQUIRED with
\* isSystemFaulted set.  No command gets both done and error, and every done
\* is preceded by an accepted for the same id.
C6_AckProtocol ==
  /\ ble.pc = "poll" => acks = <<AckAccepted(cmd.id)>>
  /\ (Returned /\ cmd.valid /\ cmd.type = StrMove /\ ValidFile(cmd.toSq)
        /\ ~ble.faultedAtEntry) => ble.outcome # "none"
  /\ (Returned /\ ble.outcome = "Arrived")
       => acks = <<AckAccepted(cmd.id), AckDone(cmd.id)>>
  /\ (Returned /\ ble.outcome \in {"TimedOut", "Aborted", "Deviated"})
       => acks = <<AckAccepted(cmd.id), FaultAck>> /\ isSystemFaulted
  /\ ~(\E i, j \in 1..Len(acks) :
         acks[i].kind = "done" /\ acks[j].kind = "error")
  /\ \A i \in 1..Len(acks) :
       acks[i].kind = "done"
         => \E j \in 1..(i - 1) :
              acks[j].kind = "accepted" /\ acks[j].id = acks[i].id

C6_Witness ==
  /\ Returned /\ ble.outcome = "Arrived" /\ ~isSystemFaulted
  /\ acks = <<AckAccepted(cmd.id), AckDone(cmd.id)>>

\* C8 (as claimed): a parsed command without a type key is an implicit move:
\* handled while not faulted, its first acknowledgement is
\* ack:accepted {id}.
C8_AbsentTypeIsMove ==
  (Handling /\ cmd.valid /\ cmd.type = << >> /\ ~ble.faultedAtEntry)
    => acks # << >> /\ acks[1] = AckAccepted(cmd.id)

\* C10 (as claimed): the servo is started by a BLE command only if its
\* destination is a square: two characters, file a-h, rank 1-8.
C10_OnlyValidSquaresDispatched ==
  ble.pc = "poll" => IsSquare(cmd.toSq)


\* ------------------------------------------------------------------------
\* Properties of v1.ino and of the third sketch, under SpecV1 / SpecV3
\* ------------------------------------------------------------------------

\* C7 (as claimed): when onWrite returns having sent ack:done, its move
\* ended as Arrived; a move that timed out or was aborted is reported as an
\* error.
C7_DoneOnlyIfArrived ==
  /\ (Returned /\ \E i \in 1..Len(acks) : acks[i].kind = "done")
       => ble.outcome = "Arrived"
  /\ (Returned /\ ble.outcome \in {"TimedOut", "Aborted"})
       => \E i \in 1..Len(acks) : acks[i].kind = "error"

\* ------------------------------------------------------------------------
\* Properties of the dual-axis sketch, under SpecXY
\* ------------------------------------------------------------------------

\* C9 (as claimed): in the dual-axis sketch a BLE move that fails latches
\* isSystemFaulted; while it is latched no BLE command starts the servo;
\* the BLE home command and the serial zero command leave it cleared.
C9_FaultBlocksUntilCleared ==
  /\ [](Returned /\ ble.outcome \in {"TimedOut", "Aborted"}
          => isSystemFaulted)
  /\ [](ble.pc = "poll" => ~ble.faultedAtEntry)
  /\ [](Returned /\ cmd.valid /\ cmd.type = StrHome => ~isSystemFaulted)
  /\ [][(lp.pc = "idle" /\ serialRx # << >> /\ Head(serialRx) = <<"z">>
           /\ serialRx' = Tail(serialRx))
          => ~isSystemFaulted']_vars


\* ------------------------------------------------------------------------
\* Properties of the stage-timer sketch, under SpecStage
\* ------------------------------------------------------------------------

BadFormatAck == AckError(Unknown, "bad_format")

WriteOfValid ==
  /\ ble.pc = "idle" /\ ble'.pc # "idle"
  /\ Trim(parseLine') # << >>
  /\ ParsedStage[parseLine'].valid

\* C12: a valid command written while stageState is not STAGE_IDLE gets
\* the single reply ack:error {id} busy; stageState and stageStartMs keep
\* their values; and the command is not kept for later: the travel stage
\* only ever starts in the step that accepts the line just written.
C12_BusyRejected ==
  /\ [][(WriteOfValid /\ stageState # STAGE_IDLE)
        => /\ acks' = <<AckError(ParsedStage[parseLine'].id, "busy")>>
           /\ ble'.pc = "return"
           /\ UNCHANGED <<motionVars, stageVars>>]_vars
  /\ [][(stageState # STAGE_MOVE_TRAVEL /\ stageState' = STAGE_MOVE_TRAVEL)
        => /\ WriteOfValid
           /\ stageState = STAGE_IDLE
           /\ cmd' = ParsedStage[parseLine']
           /\ acks' = <<AckAccepted(cmd'.id), AckDone(cmd'.id)>>]_vars

\* a valid command was refused as busy during the cooldown
C12_Witness ==
  /\ Returned
  /\ cmd.valid
  /\ acks = <<AckError(cmd.id, "busy")>>
  /\ stageState = STAGE_COOLDOWN

\* enterStage has written stageState and not yet stageStartMs
StampPending == ble.pc = "stamp" \/ lp.pc = "stamp"

\* C13 (as claimed): stageState changes only along Idle -> Travel ->
\* PickPlace -> Cooldown -> Idle; Idle is left only by the acceptance of a
\* valid command; every other stage is left only once the time since it was
\* entered has reached its threshold.
C13_StageOrder ==
  [][stageState' # stageState
     => /\ stageState = STAGE_IDLE
             => stageState' = STAGE_MOVE_TRAVEL /\ WriteOfValid
        /\ stageState # STAGE_IDLE
             => /\ stageState' = NextStageOf(stageState)
                /\ ~StampPending
                /\ sinceStageStart >= StageThreshold(stageState)]_vars

\* C14: once a command is accepted the stage machine comes back to
\* STAGE_IDLE, provided loop() keeps being called and time advances; and in
\* STAGE_IDLE a valid command is accepted (again): it gets ack:accepted and
\* ack:done and starts the travel stage.
C14_ReturnsToIdle ==
  /\ (stageState # STAGE_IDLE) ~> (stageState = STAGE_IDLE)
  /\ [][(WriteOfValid /\ stageState = STAGE_IDLE)
        => /\ stageState' = STAGE_MOVE_TRAVEL
           /\ acks' = <<AckAccepted(ParsedStage[parseLine'].id),
                        AckDone(ParsedStage[parseLine'].id)>>]_vars

\* loop() has just taken the machine from the cooldown back to STAGE_IDLE
\* after an accepted command
C14_Witness ==
  /\ stageState = STAGE_IDLE
  /\ lp.pc = "stamp"
  /\ ParsedStage[parseLine].valid


\* ------------------------------------------------------------------------
\* Properties of parseStandardCommand, under SpecParse
\* ------------------------------------------------------------------------

Parsed == calls > 0
SqE2 == <<"e","2">>
SqE4 == <<"e","4">>

SquareOutOfRange(line) ==
  /\ StartsWith(line, CmdPrefix)
  /\ LET m == ScanTokens(line, 4, EmptyCmd, FieldsV1)
     IN \/ m.toSq # << >> /\ ~isSquare(m.toSq)
        \/ m.fromSq # << >> /\ ~isSquare(m.fromSq)

\* C16 (as claimed): a CMD line whose to or from square has its file
\* outside a-h or its rank outside 1-8 is invalid, in the strict parser
\* (stage-timer sketch) and in the parser of the fault-recovery sketch
\* (v1.1) alike.
C16_OutOfRangeInvalid ==
  (Parsed /\ variant \in {"stage", "v1.1"} /\ SquareOutOfRange(parseLine))
    => ~ok

\* the fields each parser insists on are present in c
RequiredPresent(v, c) ==
  /\ c.id # << >>
  /\ v \in {"v1", "stage"}
       => /\ c.notation # << >> /\ c.fromSq # << >>
          /\ c.toSq # << >> /\ c.piece # << >>
  /\ v = "v3" => c.toSq # << >>
  /\ v = "stage"
       => /\ isSquare(c.fromSq) /\ isSquare(c.toSq)
          /\ c.piece \in {<<p>> : p \in PieceLetters}

InKey(line, i) ==
  /\ line[i] \notin {" ", "="}
  /\ \E e \in (i + 1)..Len(line) :
       line[e] = "=" /\ \A j \in i..(e - 1) : line[j] \notin {" ", "="}
  /\ ~\E j \in 1..(i - 1) :
       line[j] = "=" /\ \A k \in j..(i - 1) : line[k] # " "

\* the line with every key in upper case (ID=, TO=)
UpperKeys(line) ==
  [i \in 1..Len(line) |->
     IF InKey(line, i) THEN ToUpperChar(line[i]) ELSE line[i]]

\* the line with the first letter of every key in upper case (Id=, To=)
CapKeys(line) ==
  [i \in 1..Len(line) |->
     IF InKey(line, i) /\ (i = 1 \/ line[i - 1] = " ")
     THEN ToUpperChar(line[i]) ELSE line[i]]

\* the line with one more token right after the prefix
InsertToken(line, tok) ==
  IF StartsWith(line, CmdPrefix)
  THEN CmdPrefix \o tok \o <<" ">> \o SubSeq(line, 5, Len(line))
  ELSE line

\* C18: a line that does not start with "CMD " is invalid; the result is the
\* same whatever the letter case of the keys; and it is the same with or
\* without a token whose key is not recognised or that has no "=" in front
\* of a value, at the end of the line or in front of the other tokens.
C18_PrefixKeysJunk ==
  Parsed =>
    LET r == parseStandardCommand(variant, parseLine)
    IN /\ ok = r.valid
       /\ ok => cmd = r
       /\ ~StartsWith(parseLine, CmdPrefix) => ~ok
       /\ parseStandardCommand(variant, UpperKeys(parseLine)) = r
       /\ parseStandardCommand(variant, CapKeys(parseLine)) = r
       /\ \A tok \in JunkTokens :
            /\ parseStandardCommand(variant, Sp(parseLine, tok)) = r
            /\ parseStandardCommand(variant, InsertToken(parseLine, tok)) = r

\* a line written with the key ID= was parsed, and its id read
C18_Witness ==
  /\ Parsed /\ ok
  /\ parseLine = LineMoveB2
  /\ cmd.id = <<"3">>
  /\ UpperKeys(parseLine) # parseLine

\* the fields of the line as the token scan reads them
Scanned(line) == ScanTokens(line, 4, EmptyCmd, FieldsV1)

\* the line carries everything the strict parser asks for besides the type
StrictFieldsOk(line) ==
  /\ StartsWith(line, CmdPrefix)
  /\ LET m == Scanned(line)
     IN /\ m.id # << >> /\ m.notation # << >> /\ m.piece # << >>
        /\ isSquare(m.fromSq) /\ isSquare(m.toSq)
        /\ ToUpperChar(CharAt(m.piece, 0)) \in PieceLetters

\* the action a type names, letter case aside
ActionOf(type) ==
  IF ToLowerCase(type) = StrHome THEN "home"
  ELSE IF ToLowerCase(type) = StrConfirm THEN "confirm"
  ELSE IF ToLowerCase(type) = StrMove THEN "move"
  ELSE "none"

\* C19 (as claimed): the type is matched without regard to letter case.  In
\* the strict parser a line with every required field is valid exactly
\* when its type is absent, empty or some spelling of move; in v1.1 every
\* spelling of move, home and confirm selects that action (the system not
\* being faulted).
C19_TypeCaseInsensitive ==
  Parsed =>
    /\ (variant = "stage" /\ StrictFieldsOk(parseLine))
         => (ok <=> ActionOf(Scanned(parseLine).type) = "move"
                      \/ Scanned(parseLine).type = << >>)
    /\ (variant = "v1.1" /\ ok /\ ActionOf(cmd.type) # "none")
         => DispatchV11(cmd, FALSE) = ActionOf(cmd.type)


\* ------------------------------------------------------------------------
\* Properties of v1.1.ino on its two tasks, under SpecV11
\* ------------------------------------------------------------------------

\* onWrite is inside moveToTarget
BleMoveBlocking == ble.pc = "poll"

\* C20 (as claimed): while a move started by a BLE write blocks inside
\* onWrite no other command is serviced: moveToTarget is never active in
\* both tasks at once, and a step that is not the BLE handler's own writes
\* neither the motor outputs nor the fault latch, the recorded target or
\* the direction flag.
C20_SingleControlContext ==
  [][/\ ~(ble'.pc = "poll" /\ lp'.pc = "poll")
     /\ (BleMoveBlocking /\ ble' = ble)
          => UNCHANGED <<pins, isSystemFaulted, lastFailedTarget,
                         invertDirection>>]_vars

\* the heartbeat is due: HEARTBEAT_INTERVAL_MS have passed since the last
HeartbeatDue == sinceHb >= HEARTBEAT_INTERVAL_MS

\* loop() spends the step inside moveToTarget while the clock advances
LoopBlockedWhileTimePasses ==
  lp.pc = "poll" /\ lp'.pc = "poll" /\ lp'.elapsed > lp.elapsed

\* C21 (as claimed): the heartbeat goes out on its interval whatever the
\* board is doing: two heartbeats are never closer than
\* HEARTBEAT_INTERVAL_MS, an iteration of loop() that starts with the
\* heartbeat due emits it, and no time passes with the heartbeat due and
\* loop() held inside a servo move.
C21_HeartbeatRegardless ==
  [][/\ (sinceHb' = 0 /\ sinceHb # 0) => HeartbeatDue
     /\ (HeartbeatDue /\ lp.pc = "idle" /\ lp' # lp) => sinceHb' = 0
     /\ HeartbeatDue => ~LoopBlockedWhileTimePasses]_vars


\* ------------------------------------------------------------------------
\* Properties of the dual-axis sketch, under SpecXY
\* ------------------------------------------------------------------------

\* how the servo loop of the BLE task leaves its current poll
BleBranchXY == ServoBranchXY(ble, encoder, serialRx)

\* C22: a BLE move of the dual-axis sketch runs the X servo first; the Y
\* servo starts only from an X servo that stopped on its target, never
\* after an abort or a timeout; the handler ends with ack:done {id} only
\* from a Y servo that stopped on its target, and after an abort or a
\* timeout of either axis with ack:error {id} FAULT_HOMING_REQUIRED and
\* the fault latch set.
C22_XThenY ==
  [][/\ (ble.pc = "idle" /\ ble'.pc = "poll") => ble'.axis = "X"
     /\ (ble'.pc = "poll" /\ ble'.axis = "Y" /\ ble # ble'
           /\ ~(ble.pc = "poll" /\ ble.axis = "Y"))
          => ble.pc = "poll" /\ ble.axis = "X" /\ BleBranchXY = "stop"
     /\ (ble.pc = "poll" /\ ble'.pc = "return")
          => IF ble.axis = "Y" /\ BleBranchXY = "stop"
             THEN acks' = <<AckAccepted(cmd.id), AckDone(cmd.id)>>
             ELSE /\ BleBranchXY \in {"abort", "timeout"}
                  /\ acks' = <<AckAccepted(cmd.id),
                               AckError(cmd.id, FAULT_HOMING_REQUIRED)>>
                  /\ isSystemFaulted'
                  /\ ble'.axis = ble.axis]_vars

\* the X servo timed out and the handler returned without a Y servo
C22_Witness ==
  /\ Returned
  /\ ble.axis = "X"
  /\ ble.outcome = "TimedOut"
  /\ acks = <<AckAccepted(cmd.id), AckError(cmd.id, FAULT_HOMING_REQUIRED)>>


\* ------------------------------------------------------------------------
\* Properties of the target arithmetic, under SpecCalc
\* ------------------------------------------------------------------------

\* squarePitch x countsPerInch in hundredths of a count: 1.5 in at 720.12
\* counts per inch (X, single axis), 1.5 in at 4500 counts per inch (Y)
PitchCentiCounts(v) ==
  IF v = "Y" THEN (1500 * 4500) \div 10 ELSE (1500 * 72012) \div 1000

\* the call returns the target of squareIndex, targetCounts still holding
\* the target of the index before it
CallAfterPrevious ==
  /\ ~ok /\ ok'
  /\ targetCounts = CalcTarget(variant, squareIndex - 1)

\* for indices 2..8 the target grows by the pitch, to within one count
GrowsByPitch ==
  (CallAfterPrevious /\ squareIndex \in 2..8)
    => /\ targetCounts' > targetCounts
       /\ Abs(100 * (targetCounts' - targetCounts)
                - PitchCentiCounts(variant)) < 100

\* an index below 1 gives the target of index 1
ClampedBelow ==
  (~ok /\ ok' /\ squareIndex < 1)
    => targetCounts' = CalcTarget(variant, 1)

\* C23 (as claimed): for indices 1..8 the target is strictly increasing and
\* grows by squarePitch x countsPerInch to within one count; an index
\* below 1 gives target(1) and an index above 8 gives target(8), for each
\* of the target functions.
C23_TargetsAllClamped ==
  [][/\ GrowsByPitch
     /\ ClampedBelow
     /\ (~ok /\ ok' /\ squareIndex > 8)
          => targetCounts' = CalcTarget(variant, 8)]_vars

\* C23 (amended): as claimed for calculateSquareTarget of v1, v1.1 and the
\* third sketch and for calculateTargetX / calculateTargetY; the
\* calculateSquareTarget of calibration.ino has no upper clamp, and
\* above 8 its target keeps growing by the pitch.
C23_TargetsMonotone ==
  [][/\ GrowsByPitch
     /\ ClampedBelow
     /\ (~ok /\ ok' /\ squareIndex > 8 /\ variant # "calibration")
          => targetCounts' = CalcTarget(variant, 8)
     /\ (CallAfterPrevious /\ squareIndex > 8 /\ variant = "calibration")
          => /\ targetCounts' > targetCounts
             /\ Abs(100 * (targetCounts' - targetCounts)
                      - PitchCentiCounts(variant)) < 100]_vars

\* calculateSquareTarget has returned the target of square 5 after that of
\* square 4
C23_Witness ==
  /\ ok /\ calls = MaxCalls
  /\ variant = "square"
  /\ squareIndex = 5
  /\ targetCounts = calculateSquareTarget(4) + 1080


\* ------------------------------------------------------------------------
\* Further properties of v1.1.ino, under SpecV11
\* ------------------------------------------------------------------------

\* onWrite has just been entered with a valid command of the given type
BleWriteOf(type) ==
  /\ ble.pc = "idle" /\ ble'.pc # "idle"
  /\ cmd'.valid /\ cmd'.type = type

\* loop() has just read a serial line that starts with the character c
SerialLineOf(c) ==
  /\ lp.pc = "idle"
  /\ serialRx # << >>
  /\ serialRx' = Tail(serialRx)
  /\ CharAt(Trim(Head(serialRx)), 0) = c

\* performAutoHome has come to its end
HomeEnds == ble.pc = "homing" /\ ble'.pc = "return"

\* C24: in v1.1 the fault latch, once set, is cleared by nothing but a BLE
\* home (at the end of its homing run), a BLE confirm and the serial zero
\* command; each of the three is accepted while the latch is set and
\* clears it; and no servo move starts on its own: a move of the BLE task
\* starts only from a move command written while the latch is clear, a
\* move of the loop task only from a digit line just read.
C24_FaultLatchSticky ==
  [][/\ (isSystemFaulted /\ ~isSystemFaulted')
          => HomeEnds \/ BleWriteOf(StrConfirm) \/ SerialLineOf("z")
     /\ (isSystemFaulted /\ BleWriteOf(StrHome))
          => ble'.pc = "homing" /\ acks' = <<AckAccepted(cmd'.id)>>
     /\ HomeEnds
          => /\ ~isSystemFaulted'
             /\ acks' = <<AckAccepted(cmd.id), AckDone(cmd.id)>>
     /\ (isSystemFaulted /\ BleWriteOf(StrConfirm))
          => /\ ~isSystemFaulted'
             /\ acks' = <<AckAccepted(cmd'.id), AckDone(cmd'.id)>>
     /\ (isSystemFaulted /\ SerialLineOf("z")) => ~isSystemFaulted'
     /\ (ble.pc # "poll" /\ ble'.pc = "poll")
          => BleWriteOf(StrMove) /\ ~isSystemFaulted
     /\ (lp.pc # "poll" /\ lp'.pc = "poll")
          => \E d \in {Digits[k] : k \in 1..Len(Digits)} :
               SerialLineOf(d)]_vars

\* a move command written while the latch was set has been refused, and the
\* latch is still set
C24_Witness ==
  /\ Returned
  /\ ble.faultedAtEntry
  /\ isSystemFaulted
  /\ cmd.type = StrMove
  /\ acks = <<FaultAck>>


\* ------------------------------------------------------------------------
\* The motor after a servo move
\* ------------------------------------------------------------------------

\* moveToTarget of the given task returns in this step
MoveReturns(task, taskNext) ==
  /\ task.pc = "poll"
  /\ \/ taskNext.pc = "return"
     \/ taskNext.pc = "poll" /\ taskNext.axis # task.axis

\* single-axis sketches: the step by which moveToTarget returns leaves both
\* PWM pins at zero, whatever the outcome
MotorStoppedOnReturnSingle ==
  [][/\ MoveReturns(ble, ble') => pins' = motorStop
     /\ MoveReturns(lp, lp') => pins' = motorStop]_vars

LastPollArrived(task) ==
  /\ ~StopPending(serialRx)
  /\ Abs(task.target - encoder) <= TOLERANCE

\* the position re-read after the stop is within CRITICAL_FAULT
ReReadOk(task) == Abs(task.target - encoder') <= CRITICAL_FAULT

\* C26: in v1.1 moveToTarget returns success exactly when its last poll
\* found |target - position| <= TOLERANCE and the position re-read after
\* the stop is within CRITICAL_FAULT of the target; a move that arrived
\* but whose re-read deviates by more than CRITICAL_FAULT is a failed move;
\* a BLE move that failed ends with the error FAULT_HOMING_REQUIRED and the
\* fault latch set, one that succeeded with done and the latch unchanged.
C26_FinalValidation ==
  [][/\ MoveReturns(ble, ble')
          => /\ ble'.outcome = "Arrived"
                  <=> LastPollArrived(ble) /\ ReReadOk(ble)
             /\ (LastPollArrived(ble) /\ ~ReReadOk(ble))
                  => ble'.outcome = "Deviated"
             /\ ble'.outcome # "Arrived"
                  => /\ isSystemFaulted'
                     /\ acks' = bleNotify(acks, AckError(cmd.id,
                                                       FAULT_HOMING_REQUIRED))
             /\ ble'.outcome = "Arrived"
                  => /\ isSystemFaulted' = isSystemFaulted
                     /\ acks' = bleNotify(acks, AckDone(cmd.id))
     /\ MoveReturns(lp, lp')
          => /\ lp'.outcome = "Arrived"
                  <=> LastPollArrived(lp) /\ ReReadOk(lp)
             /\ (LastPollArrived(lp) /\ ~ReReadOk(lp))
                  => lp'.outcome = "Deviated"]_vars

\* a BLE move arrived, the carriage was then found more than CRITICAL_FAULT
\* from the target, and the command ended with the error and the latch
C26_Witness ==
  /\ Returned
  /\ ble.outcome = "Deviated"
  /\ Abs(ble.target - encoder) > CRITICAL_FAULT
  /\ isSystemFaulted
  /\ acks = <<AckAccepted(cmd.id), AckError(cmd.id, FAULT_HOMING_REQUIRED)>>

\* ------------------------------------------------------------------------
\* The servo law of the single-axis sketches and of the X axis
\* ------------------------------------------------------------------------

\* a step that writes the PWM pins and nothing else: an iteration of a
\* servo loop that goes on
DriveStep ==
  /\ pins' # pins
  /\ UNCHANGED <<encoder, led, invertDirection, isSystemFaulted,
                 lastFailedTarget, g_clientConnected, serialRx, ble, lp, cmd,
                 acks, sinceHb>>

\* the duties <<first pin, second pin>> for a speed and a direction of
\* travel: the second pin drives forward, and the order is swapped when
\* the axis is inverted
PinsFor(pwm, forward, inverted) ==
  IF forward # inverted THEN <<0, pwm>> ELSE <<pwm, 0>>

\* the task is in a servo loop towards a target it has not reached, and
\* the pins carry the two-speed law for its error
CommandedBy(task, slowZone, fast, slow, tolerance, count, inverted, duty) ==
  LET error == task.target - count
  IN /\ task.pc = "poll"
     /\ Abs(error) > tolerance
     /\ duty = PinsFor(IF Abs(error) > slowZone THEN fast ELSE slow,
                       error > 0, inverted)

ServoLawX ==
  [][(DriveStep /\ pins'.X # pins.X)
       => \E task \in {ble, lp} :
            /\ task.axis = "X"
            /\ pins'.Y = pins.Y
            /\ CommandedBy(task, SLOW_ZONE_X, MAX_SPEED, MIN_SPEED_X,
                           TOLERANCE_XY, encoder.X, invertDirection.X,
                           pins'.X)]_vars

YMoveStarts(task, taskNext) ==
  /\ taskNext.pc = "poll" /\ taskNext.axis = "Y"
  /\ task.pc # "poll" \/ task.axis # "Y"

\* the Y move of the task returns true in this step
YMoveArrives(task, taskNext) ==
  /\ task.pc = "poll" /\ task.axis = "Y"
  /\ taskNext.pc = "return" /\ taskNext.outcome = "Arrived"

\* the position has crossed the point PRE_STOP_Y before the target, in the
\* direction of travel
CrossedPreStop(task) ==
  IF task.forward THEN encoder.Y >= task.target - PRE_STOP_Y
  ELSE encoder.Y <= task.target + PRE_STOP_Y

\* how a Y move that began at startPos may end with Arrived
YStopRule(task) ==
  IF task.cutoffPoint # task.target
  THEN Abs(task.target - encoder.Y) <= TOLERANCE_XY \/ CrossedPreStop(task)
  ELSE Abs(task.target - encoder.Y) <= TOLERANCE_XY

\* C28: Y axis of the dual-axis sketch: the cut-off point lies PRE_STOP_Y
\* before the target exactly when |target - startPos| > PRE_STOP_Y, and is
\* the target otherwise; a long move returns Arrived once the position has
\* crossed the cut-off point in the direction of travel (or is within
\* TOLERANCE), a short move returns Arrived only at a poll where
\* |target - position| <= TOLERANCE.
C28_YCutoff ==
  [][\A t \in {<<ble, ble'>>, <<lp, lp'>>} :
       /\ YMoveStarts(t[1], t[2])
            => /\ t[2].forward = (t[2].target > encoder'.Y)
               /\ t[2].cutoffPoint =
                    IF Abs(t[2].target - encoder'.Y) > PRE_STOP_Y
                    THEN IF t[2].forward THEN t[2].target - PRE_STOP_Y
                         ELSE t[2].target + PRE_STOP_Y
                    ELSE t[2].target
       /\ YMoveArrives(t[1], t[2]) => YStopRule(t[1])]_vars

\* ------------------------------------------------------------------------
\* The stop byte during a servo move (dual-axis sketch)
\* ------------------------------------------------------------------------

\* a stop byte lies somewhere in the serial receive buffer
StopByteReceived ==
  \E k \in 1..Len(serialRx) :
    \E j \in 1..Len(serialRx[k]) : serialRx[k][j] = "s"

\* C29: whenever a stop byte 's' lies in the serial buffer while a servo
\* move is polling, wherever in the buffer it lies, the next iteration of
\* the move does not drive the motor on and does not end in any other way
\* than by stopping the motor and returning Aborted.
C29_AbortHonoured ==
  [][\A t \in {<<ble, ble'>>, <<lp, lp'>>} :
       (t[1].pc = "poll" /\ StopByteReceived)
         => /\ ~DriveStep
            /\ MoveReturns(t[1], t[2])
                 => t[2].outcome = "Aborted" /\ pins' = stopAll]_vars

\* ------------------------------------------------------------------------
\* Termination of moves, homing runs and BLE dispatches (v1.1.ino), under
\* SpecV11Fair
\* ------------------------------------------------------------------------

\* the timeout of the task's move has elapsed, it has not arrived and no
\* stop byte is waiting
OnlyTimeoutLeft(task) ==
  /\ task.pc = "poll"
  /\ task.elapsed > TIMEOUT_MS
  /\ ~StopPending(serialRx)
  /\ Abs(task.target - encoder) > TOLERANCE

\* C30: as long as time advances, every servo move of either task returns,
\* as Arrived (or deviated after arrival), Aborted or TimedOut; an
\* iteration of the servo loop drives the motor on only if the timeout of
\* its move has not elapsed, and one that finds it elapsed, with neither
\* arrival nor a stop byte, returns TimedOut: at the first poll after the
\* timeout, one polling delay after it at the latest; every homing run returns and every BLE
\* dispatch comes back to idle.
C30_MovesTerminate ==
  /\ (ble.pc = "poll") ~> (ble.pc = "return" /\ ble.outcome # "none")
  /\ (lp.pc = "poll") ~> (lp.pc = "return" /\ lp.outcome # "none")
  /\ (ble.pc = "homing") ~> (ble.pc = "return")
  /\ (ble.pc # "idle") ~> (ble.pc = "idle")
  /\ [][/\ DriveStep
             => \E t \in {ble, lp} :
                  /\ t.elapsed <= TIMEOUT_MS
                  /\ CommandedBy(t, SLOW_ZONE, SPEED_FAST, SPEED_SLOW,
                                 TOLERANCE, encoder, invertDirection, pins')
        /\ (OnlyTimeoutLeft(ble) /\ MoveReturns(ble, ble'))
             => ble'.outcome = "TimedOut"
        /\ (OnlyTimeoutLeft(lp) /\ MoveReturns(lp, lp'))
             => lp'.outcome = "TimedOut"]_vars

\* a move of the BLE task has ended by its timeout, far from its target,
\* while a move of the loop task is past its timeout as well
C30_Witness ==
  /\ ble.pc = "return" /\ ble.outcome = "TimedOut"
  /\ ble.elapsed > TIMEOUT_MS
  /\ Abs(ble.target - encoder) > TOLERANCE
  /\ lp.pc = "poll" /\ lp.elapsed > TIMEOUT_MS

\* ------------------------------------------------------------------------
\* v1.1.ino: failed moves and the fault latch, by transport
\* ------------------------------------------------------------------------

\* the move of the task ends in this step by its timeout or by a critical
\* deviation found after the stop
MoveFails(task, taskNext) ==
  /\ MoveReturns(task, taskNext)
  /\ taskNext.outcome \in {"TimedOut", "Deviated"}

\* C31: in v1.1 every move that ends by its timeout or by a critical
\* deviation after the stop leaves isSystemFaulted set, whether it was
\* started by a BLE move command or by a serial digit line.
C31_AnyFailureLatches ==
  [][/\ MoveFails(ble, ble') => isSystemFaulted'
     /\ MoveFails(lp, lp') => isSystemFaulted']_vars

\* ------------------------------------------------------------------------
\* v1.1.ino: destination files outside the board
\* ------------------------------------------------------------------------

\* the first character of the square is one of a-h or A-H
FileOnBoard(toSq) ==
  \E k \in 1..8 :
    CharAt(toSq, 0) = LowerLetters[k] \/ CharAt(toSq, 0) = UpperLetters[k]

\* the command is answered with invalid_file and nothing else happens:
\* no pin, encoder, lastFailedTarget or latch is written and onWrite returns
AbsorbedAsInvalidFile ==
  /\ acks' = <<AckAccepted(cmd'.id), AckError(cmd'.id, "invalid_file")>>
  /\ ble'.pc = "return"
  /\ UNCHANGED <<encoder, pins, lastFailedTarget, isSystemFaulted>>

\* C32 as stated: every parsed move whose destination file is outside a-h /
\* A-H is answered with invalid_file and absorbed.
C32_InvalidFileAlways ==
  [][(BleWriteOf(StrMove) /\ ~FileOnBoard(cmd'.toSq))
       => AbsorbedAsInvalidFile]_vars

\* C32: in v1.1 a parsed move whose destination file is outside a-h / A-H,
\* written while the fault latch is clear, is answered with accepted and
\* then with the error invalid_file, starts no motion, writes no encoder,
\* lastFailedTarget or latch value, and returns; a move with a file on the
\* board written while the latch is clear (so also after such an error)
\* is accepted and starts its servo move; while the latch is set every
\* move, whatever its file, is answered with FAULT_HOMING_REQUIRED alone.
C32_InvalidFileAbsorbed ==
  [][/\ (BleWriteOf(StrMove) /\ ~isSystemFaulted /\ ~FileOnBoard(cmd'.toSq))
          => AbsorbedAsInvalidFile
     /\ (BleWriteOf(StrMove) /\ ~isSystemFaulted /\ FileOnBoard(cmd'.toSq))
          => /\ ble'.pc = "poll"
             /\ acks' = <<AckAccepted(cmd'.id)>>
     /\ (BleWriteOf(StrMove) /\ isSystemFaulted)
          => /\ acks' = <<AckError(cmd'.id, FAULT_HOMING_REQUIRED)>>
             /\ ble'.pc = "return"
             /\ UNCHANGED <<encoder, pins, lastFailedTarget,
                            isSystemFaulted>>]_vars

\* a move to j9 has been answered with invalid_file; the latch is clear and
\* the motor at rest
C32_Witness ==
  /\ Returned
  /\ cmd.type = StrMove /\ ~FileOnBoard(cmd.toSq)
  /\ acks = <<AckAccepted(cmd.id), AckError(cmd.id, "invalid_file")>>
  /\ ~isSystemFaulted
  /\ pins = motorStop

\* ------------------------------------------------------------------------
\* Stage-timer sketch: when ack:done is sent
\* ------------------------------------------------------------------------

\* an ack:done is notified in this step
DoneEmitted ==
  /\ \E k \in 1..Len(acks') : acks'[k].kind = "done"
  /\ ~\E k \in 1..Len(acks) : acks[k].kind = "done"

\* C33: stage-timer sketch: ack:done {id} is sent only once the staged
\* flow started by the command is over: the step that sends it leaves
\* stageState at STAGE_IDLE, never at a stage of the flow still to run.
C33_DoneAfterSequence ==
  [][DoneEmitted => stageState' = STAGE_IDLE]_vars

\* ------------------------------------------------------------------------
\* Stage-timer sketch: how long a stage lasts
\* ------------------------------------------------------------------------

\* C34: stage-timer sketch: whenever stageState leaves STAGE_MOVE_TRAVEL,
\* STAGE_MOVE_PICKPLACE or STAGE_COOLDOWN, the stage has been active for
\* at least its duration (2500, 2500, 5000 ms) since stageState took that
\* value, however the writes of enterStage in onWrite interleave with the
\* reads of an iteration of loop().
C34_StageLastsItsDuration ==
  [][(stageState' # stageState /\ stageState # STAGE_IDLE)
       => sinceStageEntry >= StageThreshold(stageState)]_vars

\* ------------------------------------------------------------------------
\* Single-axis sketches: numeric serial lines
\* ------------------------------------------------------------------------

\* loop() reads a serial line in this step
LoopReadsLine ==
  /\ lp.pc = "idle"
  /\ serialRx # << >>
  /\ serialRx' = Tail(serialRx)

\* the line consists of decimal digits only
DigitOnly(input) ==
  /\ Len(input) > 0
  /\ \A k \in 1..Len(input) : IsDigit(input[k])

\* the target of a numeric line: a square for 1..8, raw counts otherwise
NumericTarget(val) ==
  IF val \in 1..8 THEN calculateSquareTarget(val) ELSE val

\* C35: single-axis sketches: a digit-only serial line starts a move, to
\* calculateSquareTarget(value) when the value is within 1..8 and to the
\* value as raw encoder counts otherwise; a line that is not digit-only
\* starts no servo move, and the loop task starts a move in no other way.
C35_SerialNumeric ==
  [][/\ LoopReadsLine
          => LET input == Trim(Head(serialRx))
             IN IF DigitOnly(input)
                THEN /\ lp'.pc = "poll"
                     /\ lp'.target = NumericTarget(ToInt(input))
                ELSE lp'.pc # "poll"
     /\ (lp.pc # "poll" /\ lp'.pc = "poll") => LoopReadsLine]_vars

\* ------------------------------------------------------------------------
\* v1.1.ino: who writes the encoder counter
\* ------------------------------------------------------------------------

\* time passes and nothing else happens: the counter follows the hardware
TimePasses ==
  /\ ble'.pc = ble.pc /\ lp'.pc = lp.pc
  /\ UNCHANGED <<pins, led, invertDirection, isSystemFaulted,
                 lastFailedTarget, g_clientConnected, serialRx, cmd, acks>>

\* a move that found the carriage within TOLERANCE reads the counter again
\* after the stop: the carriage may have moved on
ReReadAfterStop ==
  \/ MoveReturns(ble, ble') /\ ble'.outcome \in {"Arrived", "Deviated"}
  \/ MoveReturns(lp, lp') /\ lp'.outcome \in {"Arrived", "Deviated"}

\* C36: the encoder counter of v1.1 is 0 after setup and is written only
\* by the resets: the end of a homing run and the serial zero command (to
\* 0) and confirm (to lastFailedTarget).  Every other step in which it
\* changes is the hardware counting: time passing, or the carriage
\* settling at an arrival; jog, stop, invert, the servo loop, and commands
\* that are refused or fail leave it as it is.
C36_EncoderWrittenByResets ==
  /\ encoder = 0
  /\ [][/\ HomeEnds => encoder' = 0
        /\ SerialLineOf("z") => encoder' = 0
        /\ BleWriteOf(StrConfirm) => encoder' = lastFailedTarget
        /\ encoder' # encoder
             => \/ HomeEnds \/ SerialLineOf("z") \/ BleWriteOf(StrConfirm)
                \/ TimePasses \/ ReReadAfterStop]_vars

\* a BLE move has timed out away from its target and from home: the
\* counter holds what the hardware counted
C36_Witness ==
  /\ Returned
  /\ ble.outcome = "TimedOut"
  /\ encoder # 0
  /\ encoder # ble.target

\* ------------------------------------------------------------------------
\* v1.1.ino: the busy LED
\* ------------------------------------------------------------------------

\* C37: the LED goes HIGH when moveToTarget or performAutoHome starts and
\* is LOW after every return of either, whatever the outcome of the move.
C37_LedOffAfterMove ==
  [][/\ \A t \in {<<ble, ble'>>, <<lp, lp'>>} :
          /\ (t[1].pc = "idle" /\ t[2].pc \in {"poll", "homing"}) => led'
          /\ MoveReturns(t[1], t[2]) => ~led'
     /\ HomeEnds => ~led']_vars

\* ------------------------------------------------------------------------
\* v1.1.ino: lastFailedTarget
\* ------------------------------------------------------------------------

\* the task enters moveToTarget in this step
MoveStarts(task, taskNext) == task.pc = "idle" /\ taskNext.pc = "poll"

\* C38: in v1.1 lastFailedTarget is 0 until the first move and is written
\* by nothing but the entry of moveToTarget, which stores its target there
\* whether the move was asked for over BLE or by a serial line and however
\* it ends; a confirm command, with the fault latch set or not, writes
\* that value to the encoder and is answered accepted and done.
C38_LastTargetTracksMoves ==
  /\ lastFailedTarget = 0
  /\ [][/\ MoveStarts(ble, ble') => lastFailedTarget' = ble'.target
        /\ MoveStarts(lp, lp') => lastFailedTarget' = lp'.target
        /\ lastFailedTarget' # lastFailedTarget
             => MoveStarts(ble, ble') \/ MoveStarts(lp, lp')
        /\ BleWriteOf(StrConfirm)
             => /\ encoder' = lastFailedTarget
                /\ lastFailedTarget' = lastFailedTarget
                /\ acks' = <<AckAccepted(cmd'.id), AckDone(cmd'.id)>>]_vars

\* a confirm written while the latch was clear has set the encoder to the
\* target of the last move, which had been started from the serial line
C38_Witness ==
  /\ Returned
  /\ cmd.type = StrConfirm
  /\ ~ble.faultedAtEntry
  /\ lastFailedTarget = calculateSquareTarget(3)
  /\ encoder = lastFailedTarget

\* ------------------------------------------------------------------------
\* v1.1.ino: order of the terminal tests of one poll
\* ------------------------------------------------------------------------

\* the poll by which a move of v1.1 returns decided in the order abort,
\* arrival, timeout
PollPriority(task, taskNext) ==
  /\ StopPending(serialRx) => taskNext.outcome = "Aborted"
  /\ taskNext.outcome = "Aborted" => StopPending(serialRx)
  /\ LastPollArrived(task)
       => /\ taskNext.outcome \in {"Arrived", "Deviated"}
          /\ ReReadOk(task) => taskNext.outcome = "Arrived"
  /\ taskNext.outcome = "TimedOut"
       <=> /\ ~StopPending(serialRx)
           /\ ~Arrived(task.target - encoder)
           /\ TimedOut(task.elapsed)

\* C39: one poll of a servo move tests abort, then arrival, then timeout:
\* with a stop byte pending the move ends Aborted whatever the position
\* and the elapsed time; otherwise, within tolerance, it takes the arrival
\* path (Arrived once the re-read passes) however long it has run; it ends
\* TimedOut exactly when no stop byte is pending, the position is out of
\* tolerance and the timeout has elapsed.
C39_TerminalPriority ==
  [][/\ MoveReturns(ble, ble') => PollPriority(ble, ble')
     /\ MoveReturns(lp, lp') => PollPriority(lp, lp')]_vars

\* a BLE move that ended Arrived after its timeout had elapsed
C39_Witness ==
  /\ Returned
  /\ ble.outcome = "Arrived"
  /\ TimedOut(ble.elapsed)
  /\ Arrived(ble.target - encoder)

\* ------------------------------------------------------------------------
\* Dual-axis sketches: the axes' motor outputs
\* ------------------------------------------------------------------------

OtherAxis(axis) == IF axis = "X" THEN "Y" ELSE "X"

\* the task is in its servo loop and the outputs of the axis it does not
\* move stay as they were
DrivesOwnAxis(task) ==
  /\ task.pc = "poll"
  /\ pins'[OtherAxis(task.axis)] = pins[OtherAxis(task.axis)]

\* C40: in the dual-axis sketches a servo move on one axis, its arrival,
\* timeout and abort included, changes the PWM outputs of that axis only:
\* the step by which a move on an axis returns leaves the outputs of the
\* other axis as they were, and so does every step that drives.
C40_AxesIndependent ==
  [][/\ \A t \in {<<ble, ble'>>, <<lp, lp'>>} :
          MoveReturns(t[1], t[2])
            => pins'[OtherAxis(t[1].axis)] = pins[OtherAxis(t[1].axis)]
     /\ DriveStep => DrivesOwnAxis(ble) \/ DrivesOwnAxis(lp)]_vars

====
